---- MODULE Spec2Model ----
(***************************************************************************)
(* A model of the CHIP-8 interpreter of chip8_rs: the decoder, the         *)
(* executor, the 60 Hz timer regulator, the pacing throttle (Sleeper) and  *)
(* the event loop that drives them.                                        *)
(*                                                                         *)
(* One iteration of the event loop is four actions in sequence, one per    *)
(* call the loop makes: the event handler of main.rs (KeyEvent, OtherEvent *)
(* or ExitEvent), then Execute (fetch, decode, execute), UpdateTimers and  *)
(* Sleep (the calls of Interpreter::step).  `phase` is the position of the *)
(* loop.  A Rust panic ends the process: status becomes "panicked" and     *)
(* nothing runs afterwards.                                                *)
(*                                                                         *)
(* Specifications:                                                         *)
(*   Spec          every two-word program over Words, two keys;            *)
(*   SpecCalls     programs of nested subroutines, no key touched;         *)
(*   SpecSecond    one emulated second of a program that loads a timer;    *)
(*   SpecThrottle  the Sleeper alone, under a clock that advances between  *)
(*                 its calls;                                              *)
(*   SpecFastCalls the Sleeper alone, every call faster than the duty      *)
(*                 cycle, the calls never ceasing (weak fairness);         *)
(*   SpecInsn      programs that load the operands of one instruction and  *)
(*                 run it: arithmetic, shifts, memory, sprites, and the    *)
(*                 accesses at the end of the memory and of the keypad;    *)
(*   SpecDecode    one-word programs, for the decoder;                     *)
(*   SpecSkips     programs that run one conditional skip, two keys;       *)
(*   SpecStep      straight-line programs that touch a timer in the cycle  *)
(*                 whose gate fires, or in the one before;                 *)
(*   SpecWait      programs that wait for a key with both timers loaded,   *)
(*                 the loop never ceasing (weak fairness);                 *)
(*   SpecAnyDuty   the Sleeper alone, constructed with any duty cycle;     *)
(*   SpecLedger    the same, with the sums of what was slept and of the    *)
(*                 surpluses kept as history variables;                    *)
(*   SpecAddI      programs that add a register to I until the sum passes  *)
(*                 the u16.                                                *)
(* In every specification but those of the Sleeper alone the clock stands  *)
(* still (the work of a cycle takes no measurable time): every Sleep finds *)
(* elapsed = 0.                                                            *)
(***************************************************************************)
EXTENDS Integers, Sequences, FiniteSets, TLC

VARIABLES
    v,            \* Interpreter.v: [u8; 16]
    i,            \* Interpreter.i: u16
    delay_timer,  \* Interpreter.delay_timer: u8
    sound_timer,  \* Interpreter.sound_timer: u8
    pc,           \* Interpreter.pc: u16
    sp,           \* Interpreter.sp: u8
    stack,        \* Interpreter.stack: [u16; 16]
    memory,       \* Interpreter.memory: [u8; 4096]
    fb,           \* the frame of Interpreter.pixels, as the set of ON cells
    keypad,       \* Interpreter.keypad: [bool; 16]
    key_pressed,  \* Interpreter.key_pressed: Option<u32>
    cycle_count,  \* Interpreter.cycle_count: u32
    debt,         \* Sleeper.debt, in nanoseconds
    elapsed,      \* Sleeper.timer.elapsed(): the time since Sleeper.timer
    slept,        \* the argument of thread::sleep in the latest sleep(), 0 if none
    branch,       \* the branch the latest sleep() took (the message it traced)
    sleep_duty_cycle, \* Sleeper.duty_cycle (sleep_duty_cycle in sleep.rs), in nanoseconds
    slept_total,  \* history: the sum of the arguments of thread::sleep so far
    surplus_total, \* history: the sum of the surpluses the fast calls found so far
    phase,        \* the position of the event loop
    status        \* "running", "panicked" or "exited"

vars == <<v, i, delay_timer, sound_timer, pc, sp, stack, memory, fb, keypad,
          key_pressed, cycle_count, debt, elapsed, slept, branch,
          sleep_duty_cycle, slept_total, surplus_total, phase, status>>

machine_vars == <<v, i, delay_timer, sound_timer, pc, sp, stack, memory, fb,
                  keypad, key_pressed, cycle_count>>

\* The two sums are kept by the specification that follows the ledger of the
\* throttle, and stand still in every other.
ledger_vars == <<slept_total, surplus_total>>

sleeper_vars == <<debt, elapsed, slept, branch, sleep_duty_cycle, ledger_vars>>

(***************************************************************************)
(* Bounds of the model.                                                    *)
(***************************************************************************)
\* The event loop is followed for this many instruction cycles.
MaxCycles == 18

\* The call-stack programs are followed for this many cycles.
MaxCallCycles == 34

\* The Sleeper's clock is followed up to this many duty cycles past its timer.
MaxElapsedCycles == 30

(***************************************************************************)
(* Program constants.                                                      *)
(***************************************************************************)
CHIP8_WIDTH == 64

CHIP8_HEIGHT == 32

CHIP8_MEMORY_SIZE == 4 * 1024

CHIP8_SPEED_HZ == 1000

\* The length of Interpreter.v, Interpreter.stack and Interpreter.keypad.
NumRegs == 16

StackSize == 16

NumKeys == 16

\* Interpreter.pc at construction and the start address of load_binary.
StartAddress == 512

\* Interpreter.hz, set once at construction.
hz == CHIP8_SPEED_HZ

\* Option<u32>: None is the empty sequence, Some(key) is <<key>>.
NoKey == << >>

Some(key) == << key >>

U8(n) == n % 256

U16Max == 65535

(***************************************************************************)
(* Bitwise operations on bytes.                                            *)
(***************************************************************************)
Bit(b, k) == (b \div (2 ^ k)) % 2

RECURSIVE BitOp(_, _, _, _)
BitOp(op, a, b, k) ==
    IF k < 0 THEN 0
    ELSE LET x == Bit(a, k)
             y == Bit(b, k)
             r == CASE op = "or"  -> IF x + y > 0 THEN 1 ELSE 0
                    [] op = "and" -> x * y
                    [] op = "xor" -> (x + y) % 2
         IN  r * (2 ^ k) + BitOp(op, a, b, k - 1)

BitOr(a, b) == BitOp("or", a, b, 7)

BitAnd(a, b) == BitOp("and", a, b, 7)

BitXor(a, b) == BitOp("xor", a, b, 7)

(***************************************************************************)
(* The decoder.                                                            *)
(***************************************************************************)
\* A faulty nibbles: the mask of the last nibble is 0x7.
nibbles_LowNibbleCut(insn) ==
    << (insn \div 4096) % 16, (insn \div 256) % 16, (insn \div 16) % 16, insn % 8 >>

\* A faulty nibbles: the two middle nibbles change places.
nibbles_MiddleSwapped(insn) ==
    << (insn \div 4096) % 16, (insn \div 16) % 16, (insn \div 256) % 16, insn % 16 >>

nibbles(insn) ==
    << (insn \div 4096) % 16, (insn \div 256) % 16, (insn \div 16) % 16, insn % 16 >>

\* An Instruction value: the variant and its operands (0 where it has none).
Insn(op, x, y, k) == [op |-> op, x |-> x, y |-> y, k |-> k]

decode(instruction) ==
    LET nb  == nibbles(instruction)
        a   == nb[1]
        x   == nb[2]
        y   == nb[3]
        n   == nb[4]
        nnn == instruction % 4096
        kk  == instruction % 256
    IN  CASE a = 0 /\ x = 0 /\ y = 14 /\ n = 0  -> Insn("Clear", 0, 0, 0)
          [] a = 0 /\ x = 0 /\ y = 14 /\ n = 14 -> Insn("Return", 0, 0, 0)
          [] a = 1                    -> Insn("Jump", 0, 0, nnn)
          [] a = 2                    -> Insn("Call", 0, 0, nnn)
          [] a = 3                    -> Insn("SkipEqIm", x, 0, kk)
          [] a = 4                    -> Insn("SkipNeIm", x, 0, kk)
          [] a = 5 /\ n = 0           -> Insn("SkipEq", x, y, 0)
          [] a = 6                    -> Insn("LoadIm", x, 0, kk)
          [] a = 7                    -> Insn("AddIm", x, 0, kk)
          [] a = 8 /\ n = 0           -> Insn("Move", x, y, 0)
          [] a = 8 /\ n = 1           -> Insn("Or", x, y, 0)
          [] a = 8 /\ n = 2           -> Insn("And", x, y, 0)
          [] a = 8 /\ n = 3           -> Insn("Xor", x, y, 0)
          [] a = 8 /\ n = 4           -> Insn("Add", x, y, 0)
          [] a = 8 /\ n = 5           -> Insn("Sub", x, y, 0)
          [] a = 8 /\ n = 6           -> Insn("Shr", x, 0, 0)
          [] a = 8 /\ n = 7           -> Insn("SubN", x, y, 0)
          [] a = 8 /\ n = 14          -> Insn("Shl", x, 0, 0)
          [] a = 9 /\ n = 0           -> Insn("SkipNe", x, y, 0)
          [] a = 10                   -> Insn("LoadI", 0, 0, nnn)
          [] a = 11                   -> Insn("JumpOff", 0, 0, nnn)
          [] a = 12                   -> Insn("Rnd", x, 0, kk)
          [] a = 13                   -> Insn("Draw", x, y, n)
          [] a = 14 /\ y = 9 /\ n = 14  -> Insn("SkipPressed", x, 0, 0)
          [] a = 14 /\ y = 10 /\ n = 1  -> Insn("SkipNotPressed", x, 0, 0)
          [] a = 15 /\ y = 0 /\ n = 7   -> Insn("LoadFromDelayTimer", x, 0, 0)
          [] a = 15 /\ y = 0 /\ n = 10  -> Insn("WaitKeypress", x, 0, 0)
          [] a = 15 /\ y = 1 /\ n = 5   -> Insn("LoadDelayTimer", x, 0, 0)
          [] a = 15 /\ y = 1 /\ n = 8   -> Insn("LoadSoundTimer", x, 0, 0)
          [] a = 15 /\ y = 1 /\ n = 14  -> Insn("AddI", x, 0, 0)
          [] a = 15 /\ y = 2 /\ n = 9   -> Insn("SetSpriteAddr", x, 0, 0)
          [] a = 15 /\ y = 3 /\ n = 3   -> Insn("StoreBcd", x, 0, 0)
          [] a = 15 /\ y = 5 /\ n = 5   -> Insn("StoreRegs", x, 0, 0)
          [] a = 15 /\ y = 6 /\ n = 5   -> Insn("LoadRegs", x, 0, 0)
          [] OTHER                    -> Insn("Nop", 0, 0, 0)

(***************************************************************************)
(* The machine state as a record, so that fetch and execute are operators  *)
(* from state to state.  A panic of the Rust code is the input state with  *)
(* status "panicked": the process ends and what the instruction had        *)
(* written before the panic is never observed.                             *)
(***************************************************************************)
Machine ==
    [v |-> v, i |-> i, delay_timer |-> delay_timer, sound_timer |-> sound_timer,
     pc |-> pc, sp |-> sp, stack |-> stack, memory |-> memory, fb |-> fb,
     keypad |-> keypad, key_pressed |-> key_pressed, cycle_count |-> cycle_count,
     status |-> status]

Panic(m) == [m EXCEPT !.status = "panicked"]

\* The instruction word at pc, big-endian.
FetchWord(m) == m.memory[m.pc] * 256 + m.memory[m.pc + 1]

\* memory[pc] and memory[pc + 1] are bounds-checked index expressions.
FetchPanics(m) == m.pc + 1 >= CHIP8_MEMORY_SIZE

fetch(m) == IF FetchPanics(m) THEN Panic(m) ELSE [m EXCEPT !.pc = m.pc + 2]

\* A faulty SpriteCells: the part of a sprite past the right or the bottom
\* edge is clipped.
SpriteCells_Clipped(m, x, y, no_lines) ==
    { (y + j) * CHIP8_WIDTH + (x + c) :
        <<j, c>> \in { jc \in (0..(no_lines - 1)) \X (0..7) :
                         /\ Bit(m.memory[m.i + jc[1]], 7 - jc[2]) = 1
                         /\ x + jc[2] < CHIP8_WIDTH
                         /\ y + jc[1] < CHIP8_HEIGHT } }

\* The cells a sprite turns over: bit (7 - col) of row j lands on the cell
\* ((x + col) mod 64, (y + j) mod 32); a cell is its index in the frame.
SpriteCells(m, x, y, no_lines) ==
    { ((y + j) % CHIP8_HEIGHT) * CHIP8_WIDTH + ((x + c) % CHIP8_WIDTH) :
        <<j, c>> \in { jc \in (0..(no_lines - 1)) \X (0..7) :
                         Bit(m.memory[m.i + jc[1]], 7 - jc[2]) = 1 } }

\* The three decimal digits of a byte, hundreds first.
BcdDigit(value, k) ==
    CASE k = 0 -> (value \div 100) % 10
      [] k = 1 -> (value \div 10) % 10
      [] k = 2 -> value % 10

\* A faulty Nop: it skips the instruction after it.
Nop_SkipsNext(m) == [m EXCEPT !.pc = m.pc + 2]

\* The arms of the match in execute, one operator per instruction.
Nop(m) == m

\* A faulty Clear: only the top row of the frame is cleared.
Clear_TopRow(m) == [m EXCEPT !.fb = { cell \in m.fb : cell >= CHIP8_WIDTH }]

Clear(m) == [m EXCEPT !.fb = {}]

\* sp -= 1 on an empty stack traps (debug build) or wraps to 255 (release
\* build), and stack[255] is out of range: a panic in either build.
Return(m) ==
    IF m.sp = 0 \/ m.sp - 1 >= StackSize THEN Panic(m)
    ELSE [m EXCEPT !.sp = m.sp - 1, !.pc = m.stack[m.sp - 1]]

Jump(m, addr) == [m EXCEPT !.pc = addr]

\* A faulty Call: it saves the address of the Call itself.
Call_SavesOwnAddress(m, addr) ==
    IF m.sp >= StackSize THEN Panic(m)
    ELSE [m EXCEPT !.stack[m.sp] = m.pc - 2, !.sp = m.sp + 1, !.pc = addr]

\* stack[sp] is a bounds-checked index expression.
Call(m, addr) ==
    IF m.sp >= StackSize THEN Panic(m)
    ELSE [m EXCEPT !.stack[m.sp] = m.pc, !.sp = m.sp + 1, !.pc = addr]

LoadI(m, addr) == [m EXCEPT !.i = addr]

\* A faulty JumpOff: the offset is the register named by the second nibble.
JumpOff_UsesVx(m, addr) == [m EXCEPT !.pc = m.v[addr \div 256] + addr]

JumpOff(m, addr) == [m EXCEPT !.pc = m.v[0] + addr]

\* i += Vx on a u16 traps on overflow when checks, and wraps otherwise.
AddI(m, reg, checks) ==
    IF m.i + m.v[reg] > U16Max /\ checks THEN Panic(m)
    ELSE [m EXCEPT !.i = (m.i + m.v[reg]) % (U16Max + 1)]

\* A faulty LoadRegs: the range of registers leaves out Vx.
LoadRegs_Exclusive(m, reg) ==
    IF m.i + reg >= CHIP8_MEMORY_SIZE THEN Panic(m)
    ELSE [m EXCEPT !.v = [r \in 0..(NumRegs - 1) |->
                            IF r < reg THEN m.memory[m.i + r] ELSE m.v[r]]]

LoadRegs(m, reg) ==
    IF m.i + reg >= CHIP8_MEMORY_SIZE THEN Panic(m)
    ELSE [m EXCEPT !.v = [r \in 0..(NumRegs - 1) |->
                            IF r <= reg THEN m.memory[m.i + r] ELSE m.v[r]]]

StoreRegs(m, reg) ==
    IF m.i + reg >= CHIP8_MEMORY_SIZE THEN Panic(m)
    ELSE [m EXCEPT !.memory = [a \in 0..(CHIP8_MEMORY_SIZE - 1) |->
                            IF a >= m.i /\ a <= m.i + reg
                            THEN m.v[a - m.i] ELSE m.memory[a]]]

\* A faulty StoreBcd: the units come first and the hundreds last.
StoreBcd_UnitsFirst(m, reg, checks) ==
    IF m.i + 2 > U16Max /\ checks THEN Panic(m)
    ELSE IF \E d \in 0..2 : (m.i + d) % (U16Max + 1) >= CHIP8_MEMORY_SIZE
    THEN Panic(m)
    ELSE [m EXCEPT !.memory = [a \in 0..(CHIP8_MEMORY_SIZE - 1) |->
            IF \E d \in 0..2 : a = (m.i + d) % (U16Max + 1)
            THEN BcdDigit(m.v[reg], 2 - (CHOOSE d \in 0..2 : a = (m.i + d) % (U16Max + 1)))
            ELSE m.memory[a]]]

\* i + d is a u16 sum, then a bounds-checked index.
StoreBcd(m, reg, checks) ==
    IF m.i + 2 > U16Max /\ checks THEN Panic(m)
    ELSE IF \E d \in 0..2 : (m.i + d) % (U16Max + 1) >= CHIP8_MEMORY_SIZE
    THEN Panic(m)
    ELSE [m EXCEPT !.memory = [a \in 0..(CHIP8_MEMORY_SIZE - 1) |->
            IF \E d \in 0..2 : a = (m.i + d) % (U16Max + 1)
            THEN BcdDigit(m.v[reg], CHOOSE d \in 0..2 : a = (m.i + d) % (U16Max + 1))
            ELSE m.memory[a]]]

SetSpriteAddr(m, reg) == [m EXCEPT !.i = m.v[reg] * 5]

\* keypad[key] is a bounds-checked index expression.
\* A faulty SkipPressed: the key it finds pressed is taken as released.
SkipPressed_ReleasesKey(m, reg) ==
    LET key == m.v[reg]
    IN  IF key >= NumKeys THEN Panic(m)
        ELSE IF m.keypad[key]
             THEN [m EXCEPT !.pc = m.pc + 2, !.keypad[key] = FALSE]
             ELSE m

SkipPressed(m, reg) ==
    LET key == m.v[reg]
    IN  IF key >= NumKeys THEN Panic(m)
        ELSE IF m.keypad[key] THEN [m EXCEPT !.pc = m.pc + 2] ELSE m

SkipNotPressed(m, reg) ==
    LET key == m.v[reg]
    IN  IF key >= NumKeys THEN Panic(m)
        ELSE IF ~m.keypad[key] THEN [m EXCEPT !.pc = m.pc + 2] ELSE m

\* A faulty WaitKeypress: with no event pending it goes on to the next
\* instruction.
WaitKeypress_NoRewind(m, reg) ==
    IF m.key_pressed # NoKey
    THEN LET key == m.key_pressed[1]
         IN  [m EXCEPT !.keypad[key] = FALSE, !.v[reg] = U8(key)]
    ELSE m

\* A faulty WaitKeypress: a blocked cycle is not counted.
WaitKeypress_FreezesCycle(m, reg) ==
    IF m.key_pressed # NoKey
    THEN LET key == m.key_pressed[1]
         IN  [m EXCEPT !.keypad[key] = FALSE, !.v[reg] = U8(key)]
    ELSE [m EXCEPT !.pc = m.pc - 2, !.cycle_count = m.cycle_count - 1]

WaitKeypress(m, reg) ==
    IF m.key_pressed # NoKey
    THEN LET key == m.key_pressed[1]
         IN  [m EXCEPT !.keypad[key] = FALSE, !.v[reg] = U8(key)]
    ELSE [m EXCEPT !.pc = m.pc - 2]

\* A faulty LoadFromDelayTimer: in a cycle whose gate fires it reads the timer
\* as the decrement of that cycle leaves it.
LoadFromDelayTimer_AfterTick(m, reg) ==
    [m EXCEPT !.v[reg] = IF (m.cycle_count + 1) % (hz \div 60) = 0 /\ m.delay_timer > 0
                         THEN m.delay_timer - 1
                         ELSE m.delay_timer]

LoadFromDelayTimer(m, reg) == [m EXCEPT !.v[reg] = m.delay_timer]

LoadDelayTimer(m, reg) == [m EXCEPT !.delay_timer = m.v[reg]]

LoadSoundTimer(m, reg) == [m EXCEPT !.sound_timer = m.v[reg]]

\* Vx is written first and VF last, so VF holds the flag when x is 0xF.
WithFlag(m, reg, value, flag) ==
    [m EXCEPT !.v = [[m.v EXCEPT ![reg] = value] EXCEPT ![15] = flag]]

\* A faulty Shl: VF is the low bit, as for Shr.
Shl_FlagIsLowBit(m, src_dst) ==
    WithFlag(m, src_dst, U8(m.v[src_dst] * 2), Bit(m.v[src_dst], 0))

Shl(m, src_dst) == WithFlag(m, src_dst, U8(m.v[src_dst] * 2), Bit(m.v[src_dst], 7))

Shr(m, src_dst) == WithFlag(m, src_dst, m.v[src_dst] \div 2, Bit(m.v[src_dst], 0))

SkipEq(m, reg0, reg1) ==
    IF m.v[reg0] = m.v[reg1] THEN [m EXCEPT !.pc = m.pc + 2] ELSE m

SkipEqIm(m, reg, value) ==
    IF m.v[reg] = value THEN [m EXCEPT !.pc = m.pc + 2] ELSE m

SkipNe(m, reg0, reg1) ==
    IF m.v[reg0] # m.v[reg1] THEN [m EXCEPT !.pc = m.pc + 2] ELSE m

SkipNeIm(m, reg, value) ==
    IF m.v[reg] # value THEN [m EXCEPT !.pc = m.pc + 2] ELSE m

LoadIm(m, reg, value) == [m EXCEPT !.v[reg] = value]

AddIm(m, reg, value) == [m EXCEPT !.v[reg] = U8(m.v[reg] + value)]

Move(m, dst, src) == [m EXCEPT !.v[dst] = m.v[src]]

Or(m, src_dst, src) == [m EXCEPT !.v[src_dst] = BitOr(m.v[src_dst], m.v[src])]

And(m, src_dst, src) == [m EXCEPT !.v[src_dst] = BitAnd(m.v[src_dst], m.v[src])]

Xor(m, src_dst, src) == [m EXCEPT !.v[src_dst] = BitXor(m.v[src_dst], m.v[src])]

Add(m, src_dst, src) ==
    LET sum == m.v[src_dst] + m.v[src]
    IN  WithFlag(m, src_dst, U8(sum), IF sum > 255 THEN 1 ELSE 0)

\* A faulty Sub: VF is the borrow itself.
Sub_FlagIsBorrow(m, src_dst, src) ==
    LET overflow == m.v[src_dst] < m.v[src]
    IN  WithFlag(m, src_dst, U8(m.v[src_dst] - m.v[src] + 256),
                 IF overflow THEN 1 ELSE 0)

Sub(m, src_dst, src) ==
    LET overflow == m.v[src_dst] < m.v[src]
    IN  WithFlag(m, src_dst, U8(m.v[src_dst] - m.v[src] + 256),
                 IF overflow THEN 0 ELSE 1)

SubN(m, src_dst, src) ==
    LET overflow == m.v[src] < m.v[src_dst]
    IN  WithFlag(m, src_dst, U8(m.v[src] - m.v[src_dst] + 256),
                 IF overflow THEN 0 ELSE 1)

Rnd(m, reg, value, random_num) == [m EXCEPT !.v[reg] = BitAnd(random_num, value)]

\* A faulty Draw: the sprite's bits are set on the frame, not exclusive-ored.
Draw_SetsPixels(m, x, y, no_lines) ==
    IF m.i + no_lines > U16Max \/ m.i + no_lines > CHIP8_MEMORY_SIZE THEN Panic(m)
    ELSE LET cells == SpriteCells(m, m.v[x], m.v[y], no_lines)
         IN  [m EXCEPT !.fb = m.fb \cup cells,
                       !.v[15] = IF cells \cap m.fb # {} THEN 1 ELSE @]

\* A faulty Draw: VF is cleared when nothing collides.
Draw_ResetsFlag(m, x, y, no_lines) ==
    IF m.i + no_lines > U16Max \/ m.i + no_lines > CHIP8_MEMORY_SIZE THEN Panic(m)
    ELSE LET cells == SpriteCells(m, m.v[x], m.v[y], no_lines)
         IN  [m EXCEPT !.fb = (m.fb \ cells) \cup (cells \ m.fb),
                       !.v[15] = IF cells \cap m.fb # {} THEN 1 ELSE 0]

\* The sprite is the slice memory[i .. i + no_lines]: the u16 sum traps or
\* wraps below i, and a slice that ends past the memory or before its own
\* start panics.  No cell is visited twice (no_lines <= 15, 8 columns), so
\* the loop is one exclusive-or of the frame with the sprite's cells.
Draw(m, x, y, no_lines) ==
    IF m.i + no_lines > U16Max \/ m.i + no_lines > CHIP8_MEMORY_SIZE THEN Panic(m)
    ELSE LET cells == SpriteCells(m, m.v[x], m.v[y], no_lines)
         IN  [m EXCEPT !.fb = (m.fb \ cells) \cup (cells \ m.fb),
                       !.v[15] = IF cells \cap m.fb # {} THEN 1 ELSE @]

\* The match in execute.  rnd is the byte the random number generator
\* returns; checks tells whether the build traps integer overflow (a debug
\* build) or wraps (a release build).
ExecuteInsn(m, insn, rnd, checks) ==
    LET x  == insn.x
        y  == insn.y
        k  == insn.k
    IN  CASE insn.op = "Nop" -> Nop(m)
          [] insn.op = "Clear" -> Clear(m)
          [] insn.op = "Return" -> Return(m)
          [] insn.op = "Jump" -> Jump(m, k)
          [] insn.op = "Call" -> Call(m, k)
          [] insn.op = "LoadI" -> LoadI(m, k)
          [] insn.op = "JumpOff" -> JumpOff(m, k)
          [] insn.op = "AddI" -> AddI(m, x, checks)
          [] insn.op = "LoadRegs" -> LoadRegs(m, x)
          [] insn.op = "StoreRegs" -> StoreRegs(m, x)
          [] insn.op = "StoreBcd" -> StoreBcd(m, x, checks)
          [] insn.op = "SetSpriteAddr" -> SetSpriteAddr(m, x)
          [] insn.op = "SkipPressed" -> SkipPressed(m, x)
          [] insn.op = "SkipNotPressed" -> SkipNotPressed(m, x)
          [] insn.op = "WaitKeypress" -> WaitKeypress(m, x)
          [] insn.op = "LoadFromDelayTimer" -> LoadFromDelayTimer(m, x)
          [] insn.op = "LoadDelayTimer" -> LoadDelayTimer(m, x)
          [] insn.op = "LoadSoundTimer" -> LoadSoundTimer(m, x)
          [] insn.op = "Shl" -> Shl(m, x)
          [] insn.op = "Shr" -> Shr(m, x)
          [] insn.op = "SkipEq" -> SkipEq(m, x, y)
          [] insn.op = "SkipEqIm" -> SkipEqIm(m, x, k)
          [] insn.op = "SkipNe" -> SkipNe(m, x, y)
          [] insn.op = "SkipNeIm" -> SkipNeIm(m, x, k)
          [] insn.op = "LoadIm" -> LoadIm(m, x, k)
          [] insn.op = "AddIm" -> AddIm(m, x, k)
          [] insn.op = "Move" -> Move(m, x, y)
          [] insn.op = "Or" -> Or(m, x, y)
          [] insn.op = "And" -> And(m, x, y)
          [] insn.op = "Xor" -> Xor(m, x, y)
          [] insn.op = "Add" -> Add(m, x, y)
          [] insn.op = "Sub" -> Sub(m, x, y)
          [] insn.op = "SubN" -> SubN(m, x, y)
          [] insn.op = "Rnd" -> Rnd(m, x, k, rnd)
          [] insn.op = "Draw" -> Draw(m, x, y, k)

\* A faulty end of execute: the key-released event is kept.
ClearKeyPressed_Kept(m) == m

\* The end of execute: the key-released event is cleared and the cycle counted.
ClearKeyPressed(m) == [m EXCEPT !.key_pressed = NoKey]

\* wrapping_add(1) on a u32: the wrap at 2^32 lies beyond MaxCycles.
CountCycle(m) == [m EXCEPT !.cycle_count = m.cycle_count + 1]

execute(m, insn, rnd, checks) ==
    LET m1 == ExecuteInsn(m, insn, rnd, checks)
    IN  IF m1.status = "panicked" THEN Panic(m)
        ELSE CountCycle(ClearKeyPressed(m1))

\* fetch, decode and execute of one step.
FetchDecodeExecute(m, rnd, checks) ==
    LET m1 == fetch(m)
    IN  IF m1.status = "panicked" THEN Panic(m)
        ELSE LET m2 == execute(m1, decode(FetchWord(m)), rnd, checks)
             IN  IF m2.status = "panicked" THEN Panic(m) ELSE m2

(***************************************************************************)
(* The timer regulator.                                                    *)
(***************************************************************************)
\* A faulty decrement: it wraps below zero.
wrapping_sub(a, b) == (a - b + 256) % 256

saturating_sub(a, b) == IF a >= b THEN a - b ELSE 0

\* A faulty gate: the counters tick in every cycle.
TimerGate_EveryCycle(m) == TRUE

\* The gate of update_timers: the counters tick once every hz / 60 cycles.
TimerGate(m) == m.cycle_count % (hz \div 60) = 0

update_timers(m) ==
    IF TimerGate(m)
    THEN [m EXCEPT !.delay_timer = saturating_sub(m.delay_timer, 1),
                   !.sound_timer = saturating_sub(m.sound_timer, 1)]
    ELSE m

(***************************************************************************)
(* The pacing throttle.  Durations are in nanoseconds.                     *)
(***************************************************************************)
NanosPerSec == 1000000000

\* The duty cycle of Sleeper::new, when with_frequency is left out.
duty_cycle_Unset == 0

\* Sleeper::with_frequency: Duration::from_secs_f64(1.0 / hz as f64).
duty_cycle == NanosPerSec \div hz

\* Sleeper::new: Duration::from_millis(25).
threshold == 25 * 1000000

Sleeper ==
    [debt |-> debt, elapsed |-> elapsed, slept |-> slept, branch |-> branch,
     duty_cycle |-> sleep_duty_cycle]

\* A faulty sleep_internal: it sleeps as soon as the debt reaches the threshold.
sleep_internal_AtThreshold(s) ==
    IF s.debt >= threshold
    THEN [s EXCEPT !.slept = s.debt, !.elapsed = 0, !.debt = 0]
    ELSE s

\* A faulty sleep_internal: it sleeps, and the debt stays.
sleep_internal_KeepsDebt(s) ==
    IF s.debt > threshold
    THEN [s EXCEPT !.slept = s.debt, !.elapsed = 0]
    ELSE s

\* thread::sleep(debt), then the timer restarts and the debt is paid.
sleep_internal(s) ==
    IF s.debt > threshold
    THEN [s EXCEPT !.slept = s.debt, !.elapsed = 0, !.debt = 0]
    ELSE s

\* A faulty fast branch: the timer restarts only when the call sleeps.
TooFast_TimerRunsOn(s) ==
    LET s1 == [s EXCEPT !.debt = s.debt + (s.duty_cycle - s.elapsed),
                        !.branch = "too fast"]
    IN  sleep_internal(s1)

\* The branch of sleep() that ran faster than the duty cycle, to its end:
\* the surplus is owed, sleep_internal pays it, the timer restarts.
TooFast(s) ==
    LET s1 == [s EXCEPT !.debt = s.debt + (s.duty_cycle - s.elapsed),
                        !.branch = "too fast"]
    IN  [sleep_internal(s1) EXCEPT !.elapsed = 0]

\* A faulty slow branch: it forgets the debt whenever the machine is slow.
TooSlow_DropsDebt(s) ==
    [s EXCEPT !.debt = 0, !.elapsed = 0, !.branch = "really slow"]

\* A faulty slow branch: the slowdown is owed on top of the debt.
TooSlow_OwesSlowdown(s) ==
    LET slowdown == s.elapsed - s.duty_cycle
    IN  [s EXCEPT !.debt = s.debt + slowdown, !.elapsed = 0,
                  !.branch = "running slow"]

\* The branch of sleep() that ran slower than the duty cycle: the debt
\* absorbs the slowdown, the timer restarts, and sleep() returns.
TooSlow(s) ==
    LET slowdown == s.elapsed - s.duty_cycle
    IN  IF s.debt >= slowdown
        THEN [s EXCEPT !.debt = s.debt - slowdown, !.elapsed = 0,
                       !.branch = "running slow"]
        ELSE [s EXCEPT !.debt = 0, !.elapsed = 0, !.branch = "really slow"]

\* Sleeper::sleep, called when s.elapsed has passed since Sleeper.timer.
\* checked_sub is Some exactly when elapsed <= duty_cycle.
SleeperSleep(s) ==
    LET s0 == [s EXCEPT !.slept = 0]
    IN  IF s0.elapsed <= s0.duty_cycle THEN TooFast(s0) ELSE TooSlow(s0)

(***************************************************************************)
(* Instruction words, for the programs the model loads.                    *)
(***************************************************************************)
OpReturn == 238

OpJump(addr) == 1 * 4096 + addr

OpCall(addr) == 2 * 4096 + addr

OpLoadIm(x, kk) == 6 * 4096 + x * 256 + kk

OpLoadFromDelayTimer(x) == 15 * 4096 + x * 256 + 7

OpWaitKeypress(x) == 15 * 4096 + x * 256 + 10

OpLoadDelayTimer(x) == 15 * 4096 + x * 256 + 16 + 5

OpLoadSoundTimer(x) == 15 * 4096 + x * 256 + 16 + 8

\* The built-in font: 16 glyphs of 5 bytes.
CHIP8_FONT ==
    << 240, 144, 144, 144, 240,   32,  96,  32,  32, 112,
       240,  16, 240, 128, 240,  240,  16, 240,  16, 240,
       144, 144, 240,  16,  16,  240, 128, 240,  16, 240,
       240, 128, 240, 144, 240,  240,  16,  32,  64,  64,
       240, 144, 240, 144, 240,  240, 144, 240,  16, 240,
       240, 144, 240, 144, 144,  224, 144, 224, 144, 224,
       240, 128, 128, 128, 240,  224, 144, 144, 144, 224,
       240, 128, 240, 128, 240,  240, 128, 240, 128, 128 >>

\* The bytes of a program: each word big-endian.
RomBytes(words) ==
    [b \in 1..(2 * Len(words)) |->
        IF b % 2 = 1 THEN words[(b + 1) \div 2] \div 256 ELSE words[b \div 2] % 256]

\* Interpreter::new, load_fonts and load_binary: the memory once a program
\* is loaded.
LoadedMemory(words) ==
    LET rom == RomBytes(words)
    IN  [a \in 0..(CHIP8_MEMORY_SIZE - 1) |->
            IF a < Len(CHIP8_FONT) THEN CHIP8_FONT[a + 1]
            ELSE IF a >= StartAddress /\ a < StartAddress + Len(rom)
                 THEN rom[a - StartAddress + 1]
                 ELSE 0]

\* The words the short programs are made of.
Words ==
    { OpLoadIm(1, 2), OpLoadDelayTimer(1), OpLoadSoundTimer(1),
      OpLoadFromDelayTimer(2), OpWaitKeypress(1), OpCall(StartAddress + 2),
      OpReturn, OpJump(StartAddress) }

\* Every program of two of these words; the memory after it is zero (Nop).
ShortPrograms == { <<a, b>> : a \in Words, b \in Words }

\* depth nested subroutines: main calls the first, each calls the next, the
\* last returns at once; main then spins on a jump to itself.
NestedCalls(depth) ==
    [w \in 1..(2 * depth + 2) |->
        IF w = 1 THEN OpCall(StartAddress + 4)
        ELSE IF w = 2 THEN OpJump(StartAddress + 2)
        ELSE IF w % 2 = 1 /\ w < 2 * depth + 1 THEN OpCall(StartAddress + 2 * (w + 1))
        ELSE OpReturn]

\* A subroutine that calls itself for ever.
Recursion == << OpCall(StartAddress) >>

Programs == ShortPrograms

\* Programs about the call stack, among them a return with nothing to
\* return to.
CallPrograms ==
    { NestedCalls(d) : d \in 1..StackSize } \cup { Recursion, << OpReturn >> }

\* V1 = 255; delay_timer = V1; then zeros (Nop) to the end of the memory.
TimerProgram == << OpLoadIm(1, 255), OpLoadDelayTimer(1) >>

\* The keys the keyboard delivers in the model, out of keyboard_map's 0..15.
Keys == { 1, 15 }

\* The bytes the random number generator returns in the model.
RndBytes == { 0, 165, 255 }

(***************************************************************************)
(* The initial state: Interpreter::new, then load_binary.                  *)
(***************************************************************************)
InitMachine(mem) ==
    /\ v = [r \in 0..(NumRegs - 1) |-> 0]
    /\ i = 0
    /\ delay_timer = 0
    /\ sound_timer = 0
    /\ pc = StartAddress
    /\ sp = 0
    /\ stack = [e \in 0..(StackSize - 1) |-> 0]
    /\ memory = mem
    /\ fb = {}
    /\ keypad = [k \in 0..(NumKeys - 1) |-> FALSE]
    /\ key_pressed = NoKey
    /\ cycle_count = 0

\* The Sleeper as constructed, with the duty cycle d.
InitSleeperWith(d) ==
    /\ debt = 0
    /\ elapsed = 0
    /\ slept = 0
    /\ branch = "none"
    /\ sleep_duty_cycle = d
    /\ slept_total = 0
    /\ surplus_total = 0

InitSleeper == InitSleeperWith(duty_cycle)

Init ==
    /\ \E words \in Programs : InitMachine(LoadedMemory(words))
    /\ InitSleeper
    /\ phase = "event"
    /\ status = "running"

(***************************************************************************)
(* The actions.                                                            *)
(***************************************************************************)
SetMachine(m) ==
    /\ v' = m.v
    /\ i' = m.i
    /\ delay_timer' = m.delay_timer
    /\ sound_timer' = m.sound_timer
    /\ pc' = m.pc
    /\ sp' = m.sp
    /\ stack' = m.stack
    /\ memory' = m.memory
    /\ fb' = m.fb
    /\ keypad' = m.keypad
    /\ key_pressed' = m.key_pressed
    /\ cycle_count' = m.cycle_count
    /\ status' = m.status

SetSleeper(s) ==
    /\ debt' = s.debt
    /\ elapsed' = s.elapsed
    /\ slept' = s.slept
    /\ branch' = s.branch
    /\ sleep_duty_cycle' = s.duty_cycle

\* The loop runs until the process ends; the model follows it for `limit`
\* cycles.
Running(limit) == status = "running" /\ cycle_count < limit

\* WindowEvent::KeyboardInput for a mapped key.
KeyboardInput(m, key, just_pressed) ==
    LET previously_pressed == m.keypad[key]
    IN  [m EXCEPT !.keypad[key] = just_pressed,
                  !.key_pressed = IF previously_pressed /\ ~just_pressed
                                  THEN Some(key) ELSE NoKey]

KeyEventUpTo(limit) ==
    /\ Running(limit) /\ phase = "event"
    /\ \E key \in Keys, just_pressed \in BOOLEAN :
          SetMachine(KeyboardInput(Machine, key, just_pressed))
    /\ phase' = "execute"
    /\ UNCHANGED sleeper_vars

\* Any event that changes nothing the interpreter reads.
OtherEventUpTo(limit) ==
    /\ Running(limit) /\ phase = "event"
    /\ phase' = "execute"
    /\ UNCHANGED <<machine_vars, sleeper_vars, status>>

\* CloseRequested or Escape: the loop exits before the step.
ExitEventUpTo(limit) ==
    /\ Running(limit) /\ phase = "event"
    /\ status' = "exited"
    /\ UNCHANGED <<machine_vars, sleeper_vars, phase>>

\* The instruction about to be fetched.
NextInsn == decode(FetchWord(Machine))

ExecuteUpTo(limit) ==
    /\ Running(limit) /\ phase = "execute"
    /\ \E rnd \in (IF ~FetchPanics(Machine) /\ NextInsn.op = "Rnd" THEN RndBytes ELSE {0}),
          checks \in (IF ~FetchPanics(Machine) /\ i + 255 > U16Max THEN BOOLEAN ELSE {TRUE}) :
          LET m == FetchDecodeExecute(Machine, rnd, checks)
          IN  /\ SetMachine(m)
              /\ phase' = IF m.status = "panicked" THEN phase ELSE "timers"
    /\ UNCHANGED sleeper_vars

UpdateTimers ==
    /\ status = "running" /\ phase = "timers"
    /\ SetMachine(update_timers(Machine))
    /\ phase' = "sleep"
    /\ UNCHANGED sleeper_vars

Sleep ==
    /\ status = "running" /\ phase = "sleep"
    /\ SetSleeper(SleeperSleep(Sleeper))
    /\ phase' = "event"
    /\ UNCHANGED <<machine_vars, ledger_vars, status>>

(***************************************************************************)
(* The throttle on its own: the loop calls sleep() again and again while   *)
(* the clock advances in between by the time the rest of the iteration     *)
(* takes.  The machine stays as constructed.                               *)
(***************************************************************************)
\* The steps the clock advances by in the model.
TickSteps == { duty_cycle \div 4, duty_cycle, 8 * duty_cycle }

MaxElapsed == MaxElapsedCycles * duty_cycle

Tick ==
    /\ \E d \in TickSteps :
          /\ elapsed + d <= MaxElapsed
          /\ elapsed' = elapsed + d
    /\ UNCHANGED <<machine_vars, debt, slept, branch, sleep_duty_cycle,
                   ledger_vars, phase, status>>

\* A tick that keeps the call to come faster than the duty cycle.
FastTick ==
    /\ \E d \in TickSteps :
          /\ elapsed + d < duty_cycle
          /\ elapsed' = elapsed + d
    /\ UNCHANGED <<machine_vars, debt, slept, branch, sleep_duty_cycle,
                   ledger_vars, phase, status>>

ThrottleCall ==
    /\ SetSleeper(SleeperSleep(Sleeper))
    /\ UNCHANGED <<machine_vars, ledger_vars, phase, status>>

InitThrottle ==
    /\ InitMachine(LoadedMemory(<< >>))
    /\ InitSleeper
    /\ phase = "sleep"
    /\ status = "running"

NextThrottle == Tick \/ ThrottleCall

SpecThrottle == InitThrottle /\ [][NextThrottle]_vars

NextFastCalls == FastTick \/ ThrottleCall

\* The loop polls (ControlFlow::Poll): the next call always comes.
SpecFastCalls == InitThrottle /\ [][NextFastCalls]_vars /\ WF_vars(ThrottleCall)

KeyEvent == KeyEventUpTo(MaxCycles)

OtherEvent == OtherEventUpTo(MaxCycles)

ExitEvent == ExitEventUpTo(MaxCycles)

Execute == ExecuteUpTo(MaxCycles)

Next == KeyEvent \/ OtherEvent \/ ExitEvent \/ Execute \/ UpdateTimers \/ Sleep

Spec == Init /\ [][Next]_vars

(***************************************************************************)
(* The call stack: programs of nested subroutines, followed long enough    *)
(* for StackSize calls and as many returns.  No key is touched.            *)
(***************************************************************************)
InitCalls ==
    /\ \E words \in CallPrograms : InitMachine(LoadedMemory(words))
    /\ InitSleeper
    /\ phase = "event"
    /\ status = "running"

NextCalls ==
    OtherEventUpTo(MaxCallCycles) \/ ExecuteUpTo(MaxCallCycles) \/ UpdateTimers \/ Sleep

SpecCalls == InitCalls /\ [][NextCalls]_vars

(***************************************************************************)
(* One emulated second: a program that loads the delay timer and then      *)
(* idles, followed for hz cycles after the load.                           *)
(***************************************************************************)
InitSecond ==
    /\ InitMachine(LoadedMemory(TimerProgram))
    /\ InitSleeper
    /\ phase = "event"
    /\ status = "running"

SecondCycles == Len(TimerProgram) + hz

NextSecond ==
    OtherEventUpTo(SecondCycles) \/ ExecuteUpTo(SecondCycles) \/ UpdateTimers \/ Sleep

SpecSecond == InitSecond /\ [][NextSecond]_vars

(***************************************************************************)
(* Properties.                                                             *)
(***************************************************************************)
\* The step about to run executes the instruction at pc without a fetch panic.
Executing(op) ==
    /\ phase = "execute"
    /\ ~FetchPanics(Machine)
    /\ NextInsn.op = op

\* C1: WaitKeypress with no key-released event pending leaves pc and every
\* register as they were, so the same WaitKeypress is fetched again in the
\* next cycle; the rest of the cycle (timers, sleep, the next event) moves
\* neither.  With the release of key k pending, pc advances by 2, Vx = k and
\* keypad[k] is false.
C1_WaitKeypressBlocksUntilRelease ==
    [][ /\ (Executing("WaitKeypress") /\ key_pressed = NoKey)
            => (pc' = pc /\ v' = v /\ NextInsn' = NextInsn)
        /\ (Executing("WaitKeypress") /\ key_pressed # NoKey)
            => LET k == key_pressed[1]
               IN  pc' = pc + 2 /\ v'[NextInsn.x] = k /\ ~keypad'[k]
        /\ (phase # "execute") => (pc' = pc /\ v' = v /\ memory' = memory)
      ]_vars

\* Key 15 was released while WaitKeypress(1) at the start address waited: the
\* wait is over, at least one blocked cycle after it began.
C1_Witness ==
    /\ phase = "timers"
    /\ cycle_count >= 2
    /\ pc = StartAddress + 2
    /\ v[1] = 15
    /\ ~keypad[15]

\* C2: once a step has run its instruction (until the next event is
\* handled), no key-released event is pending, whichever instruction ran.
C2_KeyReleasedClearedEveryCycle ==
    (phase # "execute") => key_pressed = NoKey

\* A cycle consumed the release of key 15 (V1 holds it) and the step is over.
C2_Witness ==
    /\ phase = "event"
    /\ cycle_count >= 1
    /\ v[1] = 15
    /\ key_pressed = NoKey

\* C3: the timer update decrements both timers by 1, saturating at 0, when
\* cycle_count mod (hz / 60) = 0, and changes neither timer otherwise.
C3_TimersTickOnTheGate ==
    [][ (phase = "timers")
            => IF cycle_count % (hz \div 60) = 0
               THEN /\ delay_timer' = (IF delay_timer = 0 THEN 0 ELSE delay_timer - 1)
                    /\ sound_timer' = (IF sound_timer = 0 THEN 0 ELSE sound_timer - 1)
               ELSE /\ delay_timer' = delay_timer
                    /\ sound_timer' = sound_timer
      ]_vars

\* The gate fired in cycle hz / 60 and took the delay timer from 2 to 1.
C3_Witness ==
    /\ phase = "sleep"
    /\ cycle_count = hz \div 60
    /\ delay_timer = 1

\* C4: a timer grows only in a step that executes its load instruction; so
\* a timer that is 0 stays 0 until then.
C4_TimersNeverIncreaseBetweenWrites ==
    [][ /\ (delay_timer' > delay_timer) => Executing("LoadDelayTimer")
        /\ (sound_timer' > sound_timer) => Executing("LoadSoundTimer")
      ]_vars

\* The gate fired on a delay timer that was 0, and on a sound timer that was 2.
C4_Witness ==
    /\ phase = "sleep"
    /\ cycle_count = hz \div 60
    /\ delay_timer = 0
    /\ sound_timer = 1

\* The delay timer, loaded with 255, once hz more cycles have run.
AfterOneSecond == phase = "sleep" /\ cycle_count = SecondCycles

\* C5: the default rate is a multiple of 60, and in the hz cycles that follow
\* a load of the delay timer the timer is decremented exactly 60 times.
C5_SixtyTicksPerSecond ==
    /\ hz % 60 = 0
    /\ AfterOneSecond => delay_timer = 255 - 60

\* What the default rate gives instead: the gate opens every hz / 60 = 16
\* cycles, 62 times in the hz = 1000 cycles after the load.
TicksPerSecondAtDefaultRate ==
    /\ hz % 60 = 40
    /\ AfterOneSecond => delay_timer = 255 - 62

\* C6: a call that finds elapsed < duty_cycle adds the surplus to the debt;
\* it sleeps exactly when the new debt exceeds the threshold, for the whole
\* debt, and then the debt is zero and the timer restarted; otherwise it
\* does not sleep and keeps the new debt.
C6_FastCallSleepsPastThreshold ==
    [][ (ThrottleCall /\ elapsed < duty_cycle)
            => LET new_debt == debt + (duty_cycle - elapsed)
               IN  IF new_debt > threshold
                   THEN slept' = new_debt /\ debt' = 0 /\ elapsed' = 0
                   ELSE slept' = 0 /\ debt' = new_debt
      ]_vars

\* A call slept: for more than the threshold, and the debt is paid.
C6_Witness ==
    /\ slept > threshold
    /\ debt = 0
    /\ elapsed = 0

\* C7: a call that finds elapsed > duty_cycle takes the slowdown off the
\* debt, or clears a debt smaller than the slowdown, restarts the timer and
\* does not sleep.
C7_SlowCallSpendsDebt ==
    [][ (ThrottleCall /\ elapsed > duty_cycle)
            => LET slowdown == elapsed - duty_cycle
               IN  /\ debt' = (IF debt >= slowdown THEN debt - slowdown ELSE 0)
                   /\ elapsed' = 0
                   /\ slept' = 0
      ]_vars

\* A slow call was absorbed by the debt, and some debt is left.
C7_Witness ==
    /\ branch = "running slow"
    /\ debt > 0
    /\ slept = 0
    /\ elapsed = 0

\* C8: while every call finds elapsed < duty_cycle, the debt strictly grows
\* from call to call until a call takes it past the threshold; that call
\* sleeps for the debt and clears it; and a sleep happens again and again.
C8_FastCallsSleepInfinitelyOften ==
    /\ [][ ThrottleCall
            => LET new_debt == debt + (duty_cycle - elapsed)
               IN  IF new_debt > threshold
                   THEN slept' = new_debt /\ debt' = 0
                   ELSE slept' = 0 /\ debt' > debt
         ]_vars
    /\ []<>(slept > 0)

\* A run of fast calls ended in a sleep of the accumulated debt.
C8_Witness ==
    /\ branch = "too fast"
    /\ slept > threshold
    /\ slept <= threshold + duty_cycle
    /\ debt = 0

\* Every saved return address follows a Call instruction.
SavedAddressesFollowCalls ==
    \A e \in 0..(sp - 1) :
        /\ stack[e] >= 2
        /\ stack[e] < CHIP8_MEMORY_SIZE
        /\ decode(memory[stack[e] - 2] * 256 + memory[stack[e] - 1]).op = "Call"

\* C9: Call saves the address after itself at stack[sp], increments sp and
\* jumps; Return decrements sp and jumps to stack[sp]; nothing else touches
\* sp or the stack.  So the returns undo the calls last-in-first-out: every
\* saved address follows a Call, and when the nested subroutines have all
\* returned to the instruction after the first Call, sp is 0 again.
C9_CallAndReturnAreLifo ==
    /\ [][ /\ (Executing("Call") /\ status' = "running")
                => /\ stack' = [stack EXCEPT ![sp] = pc + 2]
                   /\ sp' = sp + 1
                   /\ pc' = NextInsn.k
           /\ (Executing("Return") /\ status' = "running")
                => /\ sp' = sp - 1
                   /\ pc' = stack[sp - 1]
                   /\ stack' = stack
           /\ ~(Executing("Call") \/ Executing("Return"))
                => (sp' = sp /\ stack' = stack)
         ]_vars
    /\ [](SavedAddressesFollowCalls /\ (pc = StartAddress + 2 => sp = 0))

\* StackSize nested calls have all returned: the last stack entry was
\* written, sp is 0 and control is back after the first Call.
C9_Witness ==
    /\ sp = 0
    /\ pc = StartAddress + 2
    /\ stack[StackSize - 1] # 0
    /\ status = "running"

\* C10: a Return on an empty stack and a Call on a full stack are reported
\* as errors, not panics, and sp stays below StackSize.
C10_StackFaultsAreErrors ==
    /\ status # "panicked"
    /\ sp \in 0..(StackSize - 1)

(***************************************************************************)
(* Single instructions: programs that set up the operands of one           *)
(* instruction with LoadIm and LoadI and then run it.                      *)
(***************************************************************************)
\* The longest of these programs, in cycles.
MaxInsnCycles == 6

OpLoadI(addr) == 10 * 4096 + addr

OpAdd(x, y) == 8 * 4096 + x * 256 + y * 16 + 4

OpSub(x, y) == 8 * 4096 + x * 256 + y * 16 + 5

OpShr(x, y) == 8 * 4096 + x * 256 + y * 16 + 6

OpSubN(x, y) == 8 * 4096 + x * 256 + y * 16 + 7

OpShl(x, y) == 8 * 4096 + x * 256 + y * 16 + 14

OpDraw(x, y, n) == 13 * 4096 + x * 256 + y * 16 + n

OpSkipPressed(x) == 14 * 4096 + x * 256 + 9 * 16 + 14

OpSkipNotPressed(x) == 14 * 4096 + x * 256 + 10 * 16 + 1

OpSetSpriteAddr(x) == 15 * 4096 + x * 256 + 2 * 16 + 9

OpStoreBcd(x) == 15 * 4096 + x * 256 + 3 * 16 + 3

OpStoreRegs(x) == 15 * 4096 + x * 256 + 5 * 16 + 5

OpLoadRegs(x) == 15 * 4096 + x * 256 + 6 * 16 + 5

\* The last address of the memory.
LastAddress == CHIP8_MEMORY_SIZE - 1

\* Programs that reach for the end of the memory or of the keypad: a jump
\* to the last two addresses, the memory instructions with I at the last
\* two addresses, a key test on the values around the keypad's length.
EdgePrograms ==
    { << OpJump(a) >> : a \in { LastAddress - 1, LastAddress } }
    \cup { << OpLoadI(a), op >> :
             a \in { LastAddress - 3, LastAddress - 1, LastAddress },
             op \in { OpLoadRegs(1), OpStoreRegs(1), OpStoreBcd(0),
                      OpDraw(0, 0, 2) } }
    \cup { << OpLoadIm(1, key), op >> :
             key \in { NumKeys - 1, NumKeys, 255 },
             op \in { OpSkipPressed(1), OpSkipNotPressed(1) } }

\* The register values the arithmetic programs load: the ends of the range,
\* the values around bit 7, and 255 with 1.
ByteSamples == { 0, 1, 127, 128, 254, 255 }

\* The register pairs (x, y) of the arithmetic programs: plain, x = y, and
\* VF as the destination, as the source, and as both.
RegPairs == { <<1, 2>>, <<1, 1>>, <<15, 2>>, <<1, 15>>, <<15, 15>> }

\* The arithmetic and shift instructions on the pair (x, y).
ArithOps(x, y) == { OpAdd(x, y), OpSub(x, y), OpSubN(x, y), OpShl(x, y), OpShr(x, y) }

\* Vx = a; Vy = b; then one arithmetic or shift instruction on (x, y).
ArithPrograms ==
    UNION { { << OpLoadIm(r[1], a), OpLoadIm(r[2], b), op >> :
                op \in ArithOps(r[1], r[2]) } :
            <<r, a, b>> \in RegPairs \X ByteSamples \X ByteSamples }

\* Vx = value; I = Fx29 of it.
SpritePrograms ==
    { << OpLoadIm(1, value), OpSetSpriteAddr(1) >> :
        value \in { 0, 9, 15, 16, 26, 255 } }

\* Where the programs point I for their data: past the program, zero-filled.
DataAddress == 768

\* Vx = value; I = DataAddress; the three digits of Vx to memory.
BcdPrograms ==
    { << OpLoadIm(1, value), OpLoadI(DataAddress), OpStoreBcd(1) >> : value \in 0..255 }
    \cup { << OpLoadIm(15, value), OpLoadI(DataAddress), OpStoreBcd(15) >> :
             value \in { 0, 7, 10, 99, 100, 231, 255 } }

\* V0 = a; V1 = b; VF = c; I = DataAddress; V0..Vx to memory and back.
\* And the font bytes at I = 0 (the first) or 75 (the last glyph) into V0..Vx.
RegsPrograms ==
    { << OpLoadIm(0, 17), OpLoadIm(1, 34), OpLoadIm(15, 51),
         OpLoadI(DataAddress), OpStoreRegs(x), OpLoadRegs(x) >> :
        x \in { 0, 1, 2, 15 } }
    \cup { << OpLoadIm(2, 34), OpLoadI(a), OpLoadRegs(x) >> :
             a \in { 0, 75 }, x \in { 0, 1, 4, 15 } }

\* The sprite the drawing programs carry behind their code: a full row,
\* then half a row.
SpriteData == 255 * 256 + 15

\* The corners sprites are drawn at: inside the screen, over the right
\* edge, over the bottom edge, over both, and coordinates past the screen.
DrawCorners == { <<3, 5>>, <<60, 0>>, <<0, 31>>, <<60, 31>>, <<255, 255>> }

\* V0 = x; V1 = y; I = the sprite; its first row drawn at (V0, V1), then
\* its two rows drawn over it.  And a font glyph drawn twice at (V0, V1).
DrawPrograms ==
    { << OpLoadIm(0, c[1]), OpLoadIm(1, c[2]), OpLoadI(StartAddress + 10),
         OpDraw(0, 1, 1), OpDraw(0, 1, 2), SpriteData >> : c \in DrawCorners }
    \cup { << OpLoadIm(0, c[1]), OpLoadIm(1, c[2]), OpLoadI(glyph),
              OpDraw(0, 1, 5), OpDraw(0, 1, 5) >> :
             c \in DrawCorners, glyph \in { 5, 75 } }

OpClear == 224

OpJumpOff(addr) == 11 * 4096 + addr

\* V0 = c; glyph 1 drawn at (V0, V0); then another glyph drawn twice over it
\* at the same place.
TwiceDrawPrograms ==
    { << OpLoadIm(0, c), OpLoadI(5), OpDraw(0, 0, 5),
         OpLoadI(glyph), OpDraw(0, 0, 5), OpDraw(0, 0, 5) >> :
        c \in { 3, 30, 60 }, glyph \in { 10, 75 } }

\* VF = f; then glyph 1 drawn three times at (0, 0): on the cleared screen,
\* over itself, and on the screen it has just wiped.
FlagDrawPrograms ==
    { << OpLoadIm(15, f), OpLoadI(5), OpDraw(0, 0, 5), OpDraw(0, 0, 5),
         OpDraw(0, 0, 5) >> : f \in { 0, 1, 7 } }

\* Clear on the screen as constructed, and after a glyph was drawn at
\* (V0, V0), with V1 and I set.
ClearPrograms ==
    { << OpClear >> }
    \cup { << OpLoadIm(0, c), OpLoadIm(1, 9), OpLoadI(glyph), OpDraw(0, 0, 5),
              OpClear >> : c \in { 0, 30, 60 }, glyph \in { 5, 75 } }

\* V0 = a; V3 = b; then JumpOff, to an address whose second nibble is 3 and
\* to the last address.
JumpOffPrograms ==
    { << OpLoadIm(0, a), OpLoadIm(3, b), OpJumpOff(addr) >> :
        a \in { 0, 16, 255 }, b \in { 0, 32 }, addr \in { 768, 1022, LastAddress } }

InsnPrograms ==
    EdgePrograms \cup ArithPrograms \cup SpritePrograms \cup BcdPrograms
    \cup RegsPrograms \cup DrawPrograms \cup TwiceDrawPrograms
    \cup FlagDrawPrograms \cup ClearPrograms \cup JumpOffPrograms

InitInsn ==
    /\ \E words \in InsnPrograms : InitMachine(LoadedMemory(words))
    /\ InitSleeper
    /\ phase = "event"
    /\ status = "running"

NextInsns ==
    OtherEventUpTo(MaxInsnCycles) \/ ExecuteUpTo(MaxInsnCycles) \/ UpdateTimers \/ Sleep

SpecInsn == InitInsn /\ [][NextInsns]_vars

(***************************************************************************)
(* Properties of the single instructions.                                  *)
(***************************************************************************)
\* The step about to run reaches out of bounds: the fetch with pc or pc + 1
\* past the last address, a memory instruction with I plus its offset past
\* the last address, a key test on a value that is no key.
OutOfBounds ==
    /\ phase = "execute"
    /\ IF FetchPanics(Machine) THEN TRUE
       ELSE LET insn == NextInsn
            IN  \/ insn.op \in { "LoadRegs", "StoreRegs" } /\ i + insn.x > LastAddress
                \/ insn.op = "StoreBcd" /\ i + 2 > LastAddress
                \/ insn.op = "Draw" /\ insn.k > 0 /\ i + insn.k - 1 > LastAddress
                \/ insn.op \in { "SkipPressed", "SkipNotPressed" }
                     /\ v[insn.x] >= NumKeys

\* C11: a step that reaches out of bounds ends in an explicit addressing
\* error, never in a panic.
C11_AddressingFaultsAreErrors ==
    ~(status = "panicked" /\ OutOfBounds)

(***************************************************************************)
(* The decoder on its own: a one-word program for each word of             *)
(* DecodeWords, decoded and executed.                                      *)
(***************************************************************************)
\* The one-word programs are followed for this many cycles.
MaxDecodeCycles == 2

\* Every 16-bit instruction word.
AllWords == 0..U16Max

\* The low bytes of the words the one-word programs are made of: y = 0 and
\* y = 0xE with every last nibble, the low bytes of the 0xE and 0xF
\* patterns, and 0xFF.
DecodeLowBytes ==
    (0..15) \cup (224..239) \cup { 21, 24, 30, 41, 51, 85, 101, 158, 161, 255 }

\* The words the one-word programs are made of: every top nibble, register
\* 0 and register 0xF as x, and the low bytes above.
DecodeWords ==
    { a * 4096 + x * 256 + kk : a \in 0..15, x \in { 0, 15 }, kk \in DecodeLowBytes }

\* The variants of enum Instruction.
InstructionKinds ==
    { "Nop", "Clear", "Return", "Jump", "Call", "LoadI", "JumpOff", "AddI",
      "LoadRegs", "StoreRegs", "StoreBcd", "SetSpriteAddr", "SkipPressed",
      "SkipNotPressed", "WaitKeypress", "LoadFromDelayTimer", "LoadDelayTimer",
      "LoadSoundTimer", "Shl", "Shr", "SkipEq", "SkipEqIm", "SkipNe", "SkipNeIm",
      "LoadIm", "AddIm", "Move", "Or", "And", "Xor", "Add", "Sub", "SubN", "Rnd",
      "Draw" }

\* The instruction kinds decode produces, taken over every word.
DecodedKinds == { decode(w).op : w \in AllWords }

InitDecode ==
    /\ \E word \in DecodeWords : InitMachine(LoadedMemory(<< word >>))
    /\ InitSleeper
    /\ phase = "event"
    /\ status = "running"

NextDecode ==
    OtherEventUpTo(MaxDecodeCycles) \/ ExecuteUpTo(MaxDecodeCycles) \/ UpdateTimers \/ Sleep

SpecDecode == InitDecode /\ [][NextDecode]_vars

(***************************************************************************)
(* Properties of the decoder.                                              *)
(***************************************************************************)
\* Words that match no pattern of the instruction set: 0x0000, 0x5xy1,
\* 0x8xy8, 0x9xy1, 0xExFF and 0xFxFF, for every x and y.
UnmatchedWords ==
    { 0 }
    \cup { a * 4096 + x * 256 + y * 16 + n :
             <<a, n>> \in { <<5, 1>>, <<8, 8>>, <<9, 1>> }, x \in 0..15, y \in 0..15 }
    \cup { a * 4096 + x * 256 + 255 : a \in { 14, 15 }, x \in 0..15 }

\* Every word decodes to a variant of Instruction.
DecodeIsTotal == \A w \in AllWords : decode(w).op \in InstructionKinds

\* The unmatched words decode to Nop.
UnmatchedDecodeToNop == \A w \in UnmatchedWords : decode(w).op = "Nop"

\* C12: decode gives an instruction for every 16-bit word; the words that
\* match no pattern give Nop; and the step that executes a Nop changes no
\* register, I, sp, stack entry, memory byte, timer or frame cell: pc moves
\* on by 2 and the step does not fail.
C12_DecodeIsTotalAndNopIsInert ==
    /\ [](DecodeIsTotal /\ UnmatchedDecodeToNop)
    /\ [][ Executing("Nop")
            => /\ v' = v /\ i' = i /\ sp' = sp /\ stack' = stack
               /\ memory' = memory /\ fb' = fb
               /\ delay_timer' = delay_timer /\ sound_timer' = sound_timer
               /\ pc' = pc + 2
               /\ status' = "running"
         ]_vars

\* The one-word program 0xFFFF has run its word, a Nop.
C12_Witness ==
    /\ phase = "timers"
    /\ cycle_count = 1
    /\ FetchWord([Machine EXCEPT !.pc = StartAddress]) = U16Max
    /\ pc = StartAddress + 2

\* The instruction kinds decode produces other than the no-op.
LegalKinds == DecodedKinds \ { "Nop" }

\* C13 as stated: over all 16-bit words decode produces exactly 36 kinds
\* of instruction other than the no-op, and every instruction a step
\* executes is one of them or the no-op.
C13_ThirtySixLegalForms ==
    /\ (phase = "execute" /\ ~FetchPanics(Machine))
          => NextInsn.op \in LegalKinds \cup { "Nop" }
    /\ Cardinality(LegalKinds) = 36

\* C13, amended: over all 16-bit words decode produces exactly 34 kinds of
\* instruction other than the no-op, which are all the variants of
\* Instruction but Nop; every instruction a step executes is one of them or
\* the no-op.
C13_ThirtyFourLegalForms ==
    /\ Cardinality(LegalKinds) = 34
    /\ LegalKinds = InstructionKinds \ { "Nop" }
    /\ (phase = "execute" /\ ~FetchPanics(Machine))
          => NextInsn.op \in LegalKinds \cup { "Nop" }

\* The one-word program 0xFF65 has run its word, a LoadRegs: the pattern
\* the decoder tries last.
C13_Witness ==
    /\ phase = "timers"
    /\ cycle_count = 1
    /\ pc = StartAddress + 2
    /\ decode(FetchWord([Machine EXCEPT !.pc = StartAddress])) = Insn("LoadRegs", 15, 0, 0)

\* The kinds of instruction by the operands they carry.
AddressKinds == { "Jump", "Call", "LoadI", "JumpOff" }

ImmediateKinds == { "SkipEqIm", "SkipNeIm", "LoadIm", "AddIm", "Rnd" }

TwoRegisterKinds == { "SkipEq", "SkipNe", "Move", "Or", "And", "Xor", "Add", "Sub", "SubN" }

OneRegisterKinds ==
    { "AddI", "LoadRegs", "StoreRegs", "StoreBcd", "SetSpriteAddr", "SkipPressed",
      "SkipNotPressed", "WaitKeypress", "LoadFromDelayTimer", "LoadDelayTimer",
      "LoadSoundTimer", "Shl", "Shr" }

\* The fields of a word, by the bits they occupy: 0xaxyn, its low 12 bits
\* and its low 8 bits.
FieldX(w) == (w % 4096) \div 256

FieldY(w) == (w % 256) \div 16

FieldN(w) == w - 16 * (w \div 16)

\* The operands of decode(w) are the fields of w that its kind carries.
OperandsFollowTheWord(w) ==
    LET d == decode(w)
    IN  /\ d.op \in AddressKinds => d.k = w - 4096 * (w \div 4096)
        /\ d.op \in ImmediateKinds => d.x = FieldX(w) /\ d.k = w - 256 * (w \div 256)
        /\ d.op \in TwoRegisterKinds => d.x = FieldX(w) /\ d.y = FieldY(w)
        /\ d.op \in OneRegisterKinds => d.x = FieldX(w)
        /\ d.op = "Draw" => d.x = FieldX(w) /\ d.y = FieldY(w) /\ d.k = FieldN(w)
        /\ d.x \in 0..(NumRegs - 1) /\ d.y \in 0..(NumRegs - 1)
        /\ d.k \in 0..(CHIP8_MEMORY_SIZE - 1)
        /\ d.op = "Draw" => d.k \in 0..15
        /\ d.op \in ImmediateKinds => d.k \in 0..255

DecodedOperandsFollowTheWord == \A w \in AllWords : OperandsFollowTheWord(w)

\* C14: for every word 0xaxyn, the address forms carry its low 12 bits, the
\* immediate forms x and its low 8 bits, the two-register forms (x, y), the
\* one-register forms x, and Draw (x, y, n); so register indices are in
\* 0..15, addresses in 0..0xFFF and line counts in 0..15.  And the step acts
\* on these operands: LoadIm sets Vx to the low byte, LoadI sets I and Jump
\* sets pc to the low 12 bits.
C14_OperandsAreTheNibbles ==
    /\ []DecodedOperandsFollowTheWord
    /\ [][ LET w == FetchWord(Machine)
           IN  /\ Executing("LoadIm") => v'[FieldX(w)] = w % 256
               /\ Executing("LoadI") => i' = w % 4096
               /\ Executing("Jump") => pc' = w % 4096
         ]_vars

\* The one-word program 0x6FFF has run its word: VF holds 0xFF.
C14_Witness ==
    /\ phase = "timers"
    /\ cycle_count = 1
    /\ FetchWord([Machine EXCEPT !.pc = StartAddress]) = 6 * 4096 + 15 * 256 + 255
    /\ v = [r \in 0..(NumRegs - 1) |-> IF r = 15 THEN 255 ELSE 0]

\* The difference a - b of two bytes as a byte.
ByteDifference(a, b) == IF a >= b THEN a - b ELSE 256 + a - b

\* C15 as stated: for all x and y, x = 0xF included, Add, Sub and SubN leave
\* in Vx the result modulo 256 and in VF the flag: the carry for Add, the
\* absence of a borrow for Sub (Vx >= Vy) and SubN (Vy >= Vx).
C15_ArithmeticSetsResultAndFlag ==
    [][ LET x == NextInsn.x
            y == NextInsn.y
        IN  /\ Executing("Add")
                => /\ v'[x] = (v[x] + v[y]) % 256
                   /\ v'[15] = (IF v[x] + v[y] > 255 THEN 1 ELSE 0)
            /\ Executing("Sub")
                => /\ v'[x] = ByteDifference(v[x], v[y])
                   /\ v'[15] = (IF v[x] >= v[y] THEN 1 ELSE 0)
            /\ Executing("SubN")
                => /\ v'[x] = ByteDifference(v[y], v[x])
                   /\ v'[15] = (IF v[y] >= v[x] THEN 1 ELSE 0)
      ]_vars

\* The registers after an arithmetic step on (x, y) with this result and
\* flag: VF holds the flag, Vx the result unless x is 0xF, the others stay.
ResultAndFlag(x, result, flag) ==
    /\ v'[15] = flag
    /\ x # 15 => v'[x] = result
    /\ \A r \in 0..(NumRegs - 1) : (r # x /\ r # 15) => v'[r] = v[r]

\* C15, amended: for all y and all x other than 0xF, Add, Sub and SubN leave
\* in Vx the result modulo 256 and in VF the flag (carry for Add, no borrow
\* for Sub and SubN); with x = 0xF the flag is written last and VF holds the
\* flag alone.  No other register changes.
C15_ArithmeticSetsFlagLast ==
    [][ LET x == NextInsn.x
            y == NextInsn.y
        IN  /\ Executing("Add")
                => ResultAndFlag(x, (v[x] + v[y]) % 256,
                                 IF v[x] + v[y] > 255 THEN 1 ELSE 0)
            /\ Executing("Sub")
                => ResultAndFlag(x, ByteDifference(v[x], v[y]),
                                 IF v[x] >= v[y] THEN 1 ELSE 0)
            /\ Executing("SubN")
                => ResultAndFlag(x, ByteDifference(v[y], v[x]),
                                 IF v[y] >= v[x] THEN 1 ELSE 0)
      ]_vars

\* V1 = 0xFF, V2 = 0x01, then Sub(1, 2): V1 is 0xFE and VF is 1.
C15_Witness ==
    /\ phase = "timers"
    /\ cycle_count = 3
    /\ FetchWord([Machine EXCEPT !.pc = StartAddress + 4]) = OpSub(1, 2)
    /\ v[1] = 254
    /\ v[2] = 1
    /\ v[15] = 1

\* C16 as stated: for every x, x = 0xF included, Shl leaves Vx = 2 * Vx mod
\* 256 and VF = bit 7 of the old Vx; Shr leaves Vx = Vx div 2 and VF = bit 0
\* of the old Vx; the Vy named in the word is not written.
C16_ShiftSetsResultAndFlag ==
    [][ LET x == NextInsn.x
            y == FieldY(FetchWord(Machine))
        IN  /\ Executing("Shl")
                => /\ v'[x] = (2 * v[x]) % 256
                   /\ v'[15] = v[x] \div 128
                   /\ y \notin { x, 15 } => v'[y] = v[y]
            /\ Executing("Shr")
                => /\ v'[x] = v[x] \div 2
                   /\ v'[15] = v[x] % 2
                   /\ y \notin { x, 15 } => v'[y] = v[y]
      ]_vars

\* C16, amended: for every x other than 0xF, Shl leaves Vx = 2 * Vx mod 256
\* and VF = bit 7 of the old Vx, Shr leaves Vx = Vx div 2 and VF = bit 0 of
\* the old Vx; with x = 0xF the flag is written last and VF holds the bit
\* shifted out alone.  The Vy named in the word is neither read (the result
\* and the flag are functions of the old Vx) nor written (no register but Vx
\* and VF changes).
C16_ShiftSetsFlagLast ==
    [][ LET x == NextInsn.x
        IN  /\ Executing("Shl") => ResultAndFlag(x, (2 * v[x]) % 256, v[x] \div 128)
            /\ Executing("Shr") => ResultAndFlag(x, v[x] \div 2, v[x] % 2)
      ]_vars

\* V1 = 0xFF, V2 = 0x01, then Shl on the word 0x812E: V1 is 0xFE, VF is 1
\* and V2 is still 1.
C16_Witness ==
    /\ phase = "timers"
    /\ cycle_count = 3
    /\ FetchWord([Machine EXCEPT !.pc = StartAddress + 4]) = OpShl(1, 2)
    /\ v[1] = 254
    /\ v[2] = 1
    /\ v[15] = 1

\* The addresses of the 16 font glyphs.
GlyphAddresses == { 5 * d : d \in 0..15 }

\* C17: SetSpriteAddr(x) sets I to 5 times the low nibble of Vx, whatever
\* Vx is, so that I is the address of a font glyph.
C17_SpriteAddrIsAGlyph ==
    [][ Executing("SetSpriteAddr")
            => /\ i' = 5 * (v[NextInsn.x] % 16)
               /\ i' \in GlyphAddresses
      ]_vars

\* What the code does instead: I is 5 times the whole of Vx.
SpriteAddrIsFiveTimesVx ==
    [][ Executing("SetSpriteAddr") => i' = 5 * v[NextInsn.x] ]_vars

\* C18: StoreBcd(x), with I, I + 1 and I + 2 inside the memory, writes the
\* hundreds, the tens and the units of Vx to memory[I], memory[I + 1] and
\* memory[I + 2], three decimal digits that make up Vx again, and changes
\* no other memory byte, no register and not I.
C18_StoreBcdWritesThreeDigits ==
    [][ (Executing("StoreBcd") /\ i + 2 <= LastAddress)
            => LET value == v[NextInsn.x]
               IN  /\ status' = "running"
                   /\ memory'[i] = value \div 100
                   /\ memory'[i + 1] = (value \div 10) % 10
                   /\ memory'[i + 2] = value % 10
                   /\ \A d \in 0..2 : memory'[i + d] \in 0..9
                   /\ 100 * memory'[i] + 10 * memory'[i + 1] + memory'[i + 2] = value
                   /\ \A a \in 0..LastAddress :
                         (a < i \/ a > i + 2) => memory'[a] = memory[a]
                   /\ v' = v
                   /\ i' = i
      ]_vars

\* V1 = 231 and I = 0x300, then StoreBcd(1): memory[0x300..0x302] = 2, 3, 1.
C18_Witness ==
    /\ phase = "timers"
    /\ cycle_count = 3
    /\ v[1] = 231
    /\ i = DataAddress
    /\ memory[DataAddress] = 2
    /\ memory[DataAddress + 1] = 3
    /\ memory[DataAddress + 2] = 1

\* The step before this one ran the instruction `op` with x as its register.
JustExecuted(op, x) ==
    /\ pc >= StartAddress + 2
    /\ decode(FetchWord([Machine EXCEPT !.pc = pc - 2])) = Insn(op, x, 0, 0)

\* C19: with I + x inside the memory, StoreRegs(x) copies V0..Vx to
\* memory[I..I + x] and LoadRegs(x) copies memory[I..I + x] to V0..Vx; both
\* leave I, the registers above Vx and the memory outside I..I + x as they
\* were; so a LoadRegs(x) that follows a StoreRegs(x) at once leaves every
\* register as it is.
C19_StoreAndLoadRegsAreInclusive ==
    [][ LET x == NextInsn.x
        IN  /\ (Executing("StoreRegs") /\ i + x <= LastAddress)
                => /\ status' = "running"
                   /\ \A r \in 0..x : memory'[i + r] = v[r]
                   /\ \A a \in 0..LastAddress :
                         (a < i \/ a > i + x) => memory'[a] = memory[a]
                   /\ v' = v
                   /\ i' = i
            /\ (Executing("LoadRegs") /\ i + x <= LastAddress)
                => /\ status' = "running"
                   /\ \A r \in 0..x : v'[r] = memory[i + r]
                   /\ \A r \in (x + 1)..(NumRegs - 1) : v'[r] = v[r]
                   /\ memory' = memory
                   /\ i' = i
            /\ (Executing("LoadRegs") /\ JustExecuted("StoreRegs", x))
                => v' = v
      ]_vars

\* V0 = 17, V1 = 34, VF = 51 went to memory[0x300..0x30F] with StoreRegs(F)
\* and came back with LoadRegs(F).
C19_Witness ==
    /\ phase = "timers"
    /\ cycle_count = 6
    /\ JustExecuted("LoadRegs", 15)
    /\ memory[DataAddress] = 17
    /\ memory[DataAddress + 1] = 34
    /\ memory[DataAddress + 15] = 51
    /\ v = [r \in 0..(NumRegs - 1) |->
              IF r = 0 THEN 17 ELSE IF r = 1 THEN 34 ELSE IF r = 15 THEN 51 ELSE 0]

\* The frame cell (cx, cy) is ON in the frame f.
CellOn(f, cx, cy) == (cy * CHIP8_WIDTH + cx) \in f

\* Draw(x, y, n) about to run has a set sprite bit for the cell (cx, cy):
\* bit (7 - col) of memory[I + row], for the row and column that land on it.
SpriteHits(x, y, n, cx, cy) ==
    \E row \in 0..(n - 1), col \in 0..7 :
        /\ cx = (v[x] + col) % CHIP8_WIDTH
        /\ cy = (v[y] + row) % CHIP8_HEIGHT
        /\ (memory[i + row] \div (2 ^ (7 - col))) % 2 = 1

\* The step before this one drew n rows at (V0, V1).
JustDrew(n) ==
    /\ pc >= StartAddress + 2
    /\ decode(FetchWord([Machine EXCEPT !.pc = pc - 2])) = Insn("Draw", 0, 1, n)

\* C20: Draw(x, y, n), with the sprite inside the memory, turns over exactly
\* the cells ((Vx + col) mod 64, (Vy + row) mod 32) whose sprite bit (7 - col)
\* of memory[I + row] is set, each pixel wrapping on its own on both axes,
\* and leaves every other cell as it was; so the row 0xFF drawn at (60, 0)
\* on a cleared screen turns ON the cells x in {60, 61, 62, 63, 0, 1, 2, 3}
\* of line 0 and no other.
C20_DrawXorsAndWraps ==
    /\ [][ LET x == NextInsn.x
               y == NextInsn.y
               n == NextInsn.k
           IN  (Executing("Draw") /\ i + n <= CHIP8_MEMORY_SIZE)
                 => /\ status' = "running"
                    /\ \A cx \in 0..(CHIP8_WIDTH - 1), cy \in 0..(CHIP8_HEIGHT - 1) :
                          CellOn(fb', cx, cy)
                            <=> (CellOn(fb, cx, cy) # SpriteHits(x, y, n, cx, cy))
                    /\ fb' \subseteq 0..(CHIP8_WIDTH * CHIP8_HEIGHT - 1)
         ]_vars
    /\ []( (cycle_count = 4 /\ JustDrew(1) /\ v[0] = 60 /\ v[1] = 0 /\ memory[i] = 255)
              => fb = { 60, 61, 62, 63, 0, 1, 2, 3 } )

\* The row 0xFF was drawn at (60, 0) on the cleared screen: eight cells of
\* line 0 are ON, four at the right edge and four at the left.
C20_Witness ==
    /\ phase = "timers"
    /\ cycle_count = 4
    /\ JustDrew(1)
    /\ v[0] = 60
    /\ v[1] = 0
    /\ memory[i] = 255
    /\ fb = { 0, 1, 2, 3, 60, 61, 62, 63 }

\* The instruction at address a.
InsnAt(a) == decode(FetchWord([Machine EXCEPT !.pc = a]))

\* The frame after the n-row sprite at address a was drawn at (x0, y0) on a
\* cleared screen.
SpriteFrame(a, n, x0, y0) ==
    { cell \in 0..(CHIP8_WIDTH * CHIP8_HEIGHT - 1) :
        \E row \in 0..(n - 1), col \in 0..7 :
            /\ cell % CHIP8_WIDTH = (x0 + col) % CHIP8_WIDTH
            /\ cell \div CHIP8_WIDTH = (y0 + row) % CHIP8_HEIGHT
            /\ (memory[a + row] \div (2 ^ (7 - col))) % 2 = 1 }

\* The last two steps ran the same Draw, one after the other, and before
\* them I was set: by the program's first LoadI, or by its second one.
DrewTwice ==
    /\ pc = StartAddress + 2 * cycle_count
    /\ cycle_count >= 3
    /\ InsnAt(pc - 2).op = "Draw"
    /\ InsnAt(pc - 4) = InsnAt(pc - 2)
    /\ InsnAt(pc - 6).op = "LoadI"

\* The frame before the two draws: cleared, unless the program had drawn a
\* sprite before it set I for the two.
FrameBeforeTheTwo ==
    IF cycle_count >= 5 /\ InsnAt(pc - 8).op = "Draw"
    THEN LET first == InsnAt(pc - 8)
         IN  SpriteFrame(InsnAt(pc - 10).k, first.k, v[first.x], v[first.y])
    ELSE {}

\* The sprite Draw is about to draw has a set bit.
SpriteHasOnBit(n) == \E row \in 0..(n - 1) : memory[i + row] # 0

\* C21: the same Draw run twice in succession, with Vx, Vy, I and the sprite
\* unchanged, leaves the frame as it was before the first of the two (all
\* OFF if the screen was cleared), and VF is 1 after the second when the
\* sprite has a set bit.
C21_DrawTwiceRestoresTheFrame ==
    /\ []( DrewTwice
             => /\ fb = FrameBeforeTheTwo
                /\ SpriteHasOnBit(InsnAt(pc - 2).k) => v[15] = 1 )
    /\ [][ LET x == NextInsn.x
               y == NextInsn.y
               n == NextInsn.k
           IN  (Executing("Draw") /\ status' = "running" /\ x # 15 /\ y # 15)
                 => LET again == Draw(Machine', x, y, n)
                    IN  /\ again.fb = fb
                        /\ SpriteHasOnBit(n) => again.v[15] = 1
         ]_vars

\* A glyph was drawn twice over glyph 1 at (30, 30): the frame is glyph 1
\* again, on both sides of the bottom edge, and VF is 1.
C21_Witness ==
    /\ phase = "timers"
    /\ cycle_count = 6
    /\ DrewTwice
    /\ v[0] = 30
    /\ fb = SpriteFrame(5, 5, 30, 30)
    /\ fb # {}
    /\ v[15] = 1

\* Draw(x, y, n) about to run has a set sprite bit for a cell that is ON.
Collides(x, y, n) ==
    \E cx \in 0..(CHIP8_WIDTH - 1), cy \in 0..(CHIP8_HEIGHT - 1) :
        CellOn(fb, cx, cy) /\ SpriteHits(x, y, n, cx, cy)

\* C22: Draw sets VF to 1 when a set sprite bit lands on a cell that is ON,
\* and otherwise leaves VF as it was: Draw never writes 0 to VF.  No other
\* register changes.
C22_DrawNeverClearsTheFlag ==
    [][ LET x == NextInsn.x
            y == NextInsn.y
            n == NextInsn.k
        IN  (Executing("Draw") /\ status' = "running")
              => /\ v'[15] = (IF Collides(x, y, n) THEN 1 ELSE v[15])
                 /\ v[15] # 0 => v'[15] # 0
                 /\ \A r \in 0..(NumRegs - 2) : v'[r] = v[r]
      ]_vars

\* VF = 7, then a glyph drawn on the cleared screen: nothing collided and VF
\* is still 7.
C22_Witness ==
    /\ phase = "timers"
    /\ cycle_count = 3
    /\ pc = StartAddress + 6
    /\ InsnAt(pc - 2).op = "Draw"
    /\ fb # {}
    /\ v[15] = 7

\* C23: after Clear every cell of the frame is OFF, whatever the frame held,
\* and Clear changes no register, nor I, SP, the stack, the memory or a
\* timer.
C23_ClearTurnsEveryCellOff ==
    [][ Executing("Clear")
          => /\ \A cx \in 0..(CHIP8_WIDTH - 1), cy \in 0..(CHIP8_HEIGHT - 1) :
                    ~CellOn(fb', cx, cy)
             /\ UNCHANGED <<v, i, sp, stack, memory, delay_timer, sound_timer>>
             /\ pc' = pc + 2
      ]_vars

\* A glyph drawn at (30, 30), with V1 = 9 and I = 75, and then Clear: the
\* frame is empty and the registers are as they were.
C23_Witness ==
    /\ phase = "timers"
    /\ cycle_count = 5
    /\ pc = StartAddress + 10
    /\ InsnAt(pc - 2).op = "Clear"
    /\ InsnAt(pc - 4).op = "Draw"
    /\ fb = {}
    /\ v[0] = 30 /\ v[1] = 9 /\ i = 75

\* The machine with Vr = value.
WithRegister(r, value) == [Machine EXCEPT !.v[r] = value]

\* C24: JumpOff(addr) sets pc = V0 + addr, neither wrapped nor cut to 12
\* bits, for every V0 in 0..255 and every addr in 0..0xFFF; no register
\* other than V0 has a say, the one named by the second nibble included.
C24_JumpOffAddsV0 ==
    [][ Executing("JumpOff")
          => LET addr == NextInsn.k
             IN  /\ pc' = v[0] + addr
                 /\ UNCHANGED <<v, i, sp, stack, memory>>
                 /\ \A V0 \in 0..255, a \in { 0, 768, addr, LastAddress } :
                        JumpOff(WithRegister(0, V0), a).pc = V0 + a
                 /\ \A V0 \in ByteSamples, a \in 0..LastAddress :
                        JumpOff(WithRegister(0, V0), a).pc = V0 + a
                 /\ \A r \in 1..(NumRegs - 1), value \in ByteSamples :
                        JumpOff(WithRegister(r, value), addr).pc = pc'
      ]_vars

\* V0 = 0x10 and V3 = 0x20, then JumpOff(0x300): pc is 0x310.
C24_Witness ==
    /\ phase = "timers"
    /\ cycle_count = 3
    /\ InsnAt(StartAddress + 4) = Insn("JumpOff", 0, 0, 768)
    /\ v[0] = 16 /\ v[3] = 32
    /\ pc = 784

(***************************************************************************)
(* The conditional skips: programs that load V1 and V2 and run one skip,   *)
(* while keys go down and up.                                              *)
(***************************************************************************)
MaxSkipCycles == 3

OpSkipEqIm(x, kk) == 3 * 4096 + x * 256 + kk

OpSkipNeIm(x, kk) == 4 * 4096 + x * 256 + kk

OpSkipEq(x, y) == 5 * 4096 + x * 256 + y * 16

OpSkipNe(x, y) == 9 * 4096 + x * 256 + y * 16

\* The values of V1 and V2: the two keys of Keys, a key no event touches, and
\* a byte that is no key.
SkipSamples == { 1, 15, 7, 200 }

SkipOps(b) ==
    { OpSkipEq(1, 2), OpSkipNe(1, 2), OpSkipEq(1, 1), OpSkipNe(2, 2),
      OpSkipEqIm(1, b), OpSkipNeIm(1, b), OpSkipEqIm(2, 1), OpSkipNeIm(2, 1),
      OpSkipPressed(1), OpSkipNotPressed(1), OpSkipPressed(2), OpSkipNotPressed(2) }

SkipPrograms ==
    UNION { { << OpLoadIm(1, a), OpLoadIm(2, b), op >> : op \in SkipOps(b) } :
            <<a, b>> \in SkipSamples \X SkipSamples }

InitSkips ==
    /\ \E words \in SkipPrograms : InitMachine(LoadedMemory(words))
    /\ InitSleeper
    /\ phase = "event"
    /\ status = "running"

NextSkips ==
    \/ KeyEventUpTo(MaxSkipCycles)
    \/ OtherEventUpTo(MaxSkipCycles)
    \/ ExecuteUpTo(MaxSkipCycles)
    \/ UpdateTimers
    \/ Sleep

SpecSkips == InitSkips /\ [][NextSkips]_vars

SkipKinds ==
    { "SkipEq", "SkipNe", "SkipEqIm", "SkipNeIm", "SkipPressed", "SkipNotPressed" }

\* The predicate of the skip about to run.
SkipPredicate ==
    LET x == NextInsn.x
        y == NextInsn.y
        k == NextInsn.k
        op == NextInsn.op
    IN  CASE op = "SkipEq"         -> v[x] = v[y]
          [] op = "SkipNe"         -> v[x] # v[y]
          [] op = "SkipEqIm"       -> v[x] = k
          [] op = "SkipNeIm"       -> v[x] # k
          [] op = "SkipPressed"    -> keypad[v[x]]
          [] op = "SkipNotPressed" -> ~keypad[v[x]]

\* C25: after a conditional skip pc is the address of the instruction + 4
\* when its predicate holds and + 2 when it does not, and the skip changes
\* no register, no byte of the memory and no flag of the keypad.
C25_SkipsAdvanceByFourOrTwo ==
    [][ (\E op \in SkipKinds : Executing(op)) /\ status' = "running"
          => /\ pc' = pc + (IF SkipPredicate THEN 4 ELSE 2)
             /\ UNCHANGED <<v, i, memory, keypad, sp, stack>>
      ]_vars

\* Key 1 is down and V1 = 1: SkipPressed(1), the third instruction, has
\* skipped the fourth, and the key is still down.
C25_Witness ==
    /\ phase = "timers"
    /\ cycle_count = 3
    /\ InsnAt(StartAddress + 4) = Insn("SkipPressed", 1, 0, 0)
    /\ v[1] = 1
    /\ keypad[1]
    /\ pc = StartAddress + 8

(***************************************************************************)
(* The order of a step: straight-line programs that set both timers and    *)
(* then, in the cycle whose gate fires or in the one before it, load a     *)
(* timer or read the delay timer.                                          *)
(***************************************************************************)
\* The gate of update_timers fires in every CyclesPerTick-th cycle.
CyclesPerTick == hz \div 60

\* One cycle past the first tick of the gate.
MaxStepCycles == 17

\* V1 = t, V2 = u, both timers = u, then LoadIm(4, 0) up to the instruction
\* number `at`, which is `last`.
StepProgram(t, u, at, last) ==
    << OpLoadIm(1, t), OpLoadIm(2, u), OpLoadDelayTimer(2), OpLoadSoundTimer(2) >>
    \o [ k \in 1..(at - 5) |-> OpLoadIm(4, 0) ]
    \o << last >>

StepPrograms ==
    { StepProgram(t, u, at, last) :
        t \in { 0, 1, 200 }, u \in { 0, 9 },
        at \in { CyclesPerTick - 1, CyclesPerTick },
        last \in { OpLoadDelayTimer(1), OpLoadSoundTimer(1), OpLoadFromDelayTimer(3) } }

InitStep ==
    /\ \E words \in StepPrograms : InitMachine(LoadedMemory(words))
    /\ InitSleeper
    /\ phase = "event"
    /\ status = "running"

NextStep ==
    OtherEventUpTo(MaxStepCycles) \/ ExecuteUpTo(MaxStepCycles) \/ UpdateTimers \/ Sleep

SpecStep == InitStep /\ [][NextStep]_vars

\* The timer update of the step that ran the latest instruction is done.
StepTimersDone == phase \in { "sleep", "event" } /\ cycle_count > 0

\* What the timer update of the latest step made of the value a.
AfterTheUpdate(a) ==
    IF cycle_count % CyclesPerTick = 0 THEN (IF a = 0 THEN 0 ELSE a - 1) ELSE a

\* C26: a step fetches, decodes and executes one instruction and counts one
\* cycle, then updates the timers, then calls the throttle, in that order.
\* So a timer loaded in a cycle whose gate fires is already decremented when
\* that step ends, and LoadFromDelayTimer reads the timer as it was before
\* the decrement of its own step.
C26_StepOrder ==
    /\ [][ /\ phase = "execute"
             => /\ phase' = "timers"
                /\ cycle_count' = cycle_count + 1
                /\ pc' = pc + 2
                /\ UNCHANGED sleeper_vars
                /\ ~Executing("LoadDelayTimer") => delay_timer' = delay_timer
                /\ ~Executing("LoadSoundTimer") => sound_timer' = sound_timer
           /\ phase = "timers"
             => /\ phase' = "sleep"
                /\ UNCHANGED <<cycle_count, pc, v, i, sp, stack, memory, sleeper_vars>>
           /\ phase = "sleep"
             => /\ phase' = "event"
                /\ UNCHANGED machine_vars
                /\ branch' = "too fast"
           /\ phase = "event"
             => /\ phase' = "execute"
                /\ UNCHANGED <<machine_vars, sleeper_vars>>
         ]_vars
    /\ [](\A x \in 0..(NumRegs - 1) :
            /\ (StepTimersDone /\ JustExecuted("LoadDelayTimer", x))
                  => delay_timer = AfterTheUpdate(v[x])
            /\ (StepTimersDone /\ JustExecuted("LoadSoundTimer", x))
                  => sound_timer = AfterTheUpdate(v[x])
            /\ (StepTimersDone /\ JustExecuted("LoadFromDelayTimer", x))
                  => delay_timer = AfterTheUpdate(v[x]))

\* The gate fires in the cycle that loads the delay timer with 200: the step
\* ends with 199.  The sound timer, loaded with 9 long before, ticked too.
C26_Witness ==
    /\ phase = "sleep"
    /\ cycle_count = CyclesPerTick
    /\ JustExecuted("LoadDelayTimer", 1)
    /\ v[1] = 200
    /\ delay_timer = 199
    /\ sound_timer = 8

(***************************************************************************)
(* The wait for a key: programs that load both timers and then wait, and   *)
(* spin in place once a key was released.  The loop polls, so the next     *)
(* iteration always comes (weak fairness).                                 *)
(***************************************************************************)
\* Two ticks of the gate, and two cycles more.
MaxWaitCycles == 34

WaitAddress == StartAddress + 8

WaitPrograms ==
    { << OpLoadIm(1, t), OpLoadIm(3, s), OpLoadDelayTimer(1), OpLoadSoundTimer(3),
         OpWaitKeypress(2), OpJump(WaitAddress + 2) >> :
        t \in { 1, 2 }, s \in { 1, 2 } }

InitWait ==
    /\ \E words \in WaitPrograms : InitMachine(LoadedMemory(words))
    /\ InitSleeper
    /\ phase = "event"
    /\ status = "running"

NextWait ==
    \/ KeyEventUpTo(MaxWaitCycles)
    \/ OtherEventUpTo(MaxWaitCycles)
    \/ ExecuteUpTo(MaxWaitCycles)
    \/ UpdateTimers
    \/ Sleep

\* control_flow.set_poll(): the handler is called again at once, and each of
\* its calls returns, so the loop always moves on to its next position.
Poll ==
    /\ status = "running"
    /\ phase \in { "event", "execute" } => cycle_count < MaxWaitCycles
    /\ phase' = CASE phase = "event"   -> "execute"
                  [] phase = "execute" -> "timers"
                  [] phase = "timers"  -> "sleep"
                  [] phase = "sleep"   -> "event"

SpecWait == InitWait /\ [][NextWait]_vars /\ WF_phase(Poll)

\* The program is at its WaitKeypress.
Waiting == status = "running" /\ pc = WaitAddress

\* C27: a WaitKeypress that finds no key-released event stays where it is,
\* and its cycle is counted all the same; the timer update that follows
\* ticks at the cadence of every other cycle; so the timers, loaded with
\* nonzero values before the wait, reach 0 while the program waits.
C27_TimersTickWhileWaiting ==
    /\ [][ /\ (Executing("WaitKeypress") /\ key_pressed = NoKey)
             => /\ pc' = pc
                /\ cycle_count' = cycle_count + 1
                /\ phase' = "timers"
                /\ UNCHANGED <<delay_timer, sound_timer, v>>
           /\ (phase = "timers" /\ Waiting)
             => /\ delay_timer' = (IF cycle_count % (hz \div 60) = 0
                                   THEN saturating_sub(delay_timer, 1) ELSE delay_timer)
                /\ sound_timer' = (IF cycle_count % (hz \div 60) = 0
                                   THEN saturating_sub(sound_timer, 1) ELSE sound_timer)
         ]_vars
    /\ (Waiting ~> (delay_timer = 0 /\ sound_timer = 0))

\* Both timers were loaded with 2; after 32 cycles the program still waits,
\* no key was ever released, and both timers are 0.
C27_Witness ==
    /\ Waiting
    /\ phase = "sleep"
    /\ cycle_count = 32
    /\ v[1] = 2 /\ v[3] = 2
    /\ v[2] = 0
    /\ delay_timer = 0 /\ sound_timer = 0

(***************************************************************************)
(* Properties of the throttle at its edges.                                *)
(***************************************************************************)
\* C28: a call that finds elapsed equal to the duty cycle leaves the debt as
\* it is, restarts the timer and does not sleep, whatever the debt the calls
\* before it left: the outcome of a slow call with no slowdown.
C28_ExactCallKeepsDebt ==
    [][ (ThrottleCall /\ elapsed = sleep_duty_cycle)
            => /\ debt' = debt
               /\ elapsed' = 0
               /\ slept' = 0
               /\ [TooSlow([Sleeper EXCEPT !.slept = 0]) EXCEPT !.branch = branch'] = Sleeper'
      ]_vars

\* A first call found elapsed equal to the duty cycle: it took the fast
\* branch, owes nothing and did not sleep.
C28_Witness ==
    /\ branch = "too fast"
    /\ debt = 0
    /\ slept = 0
    /\ elapsed = 0

(***************************************************************************)
(* The throttle with any duty cycle: Sleeper::new(duty_cycle) of sleep.rs  *)
(* and Sleeper::with_frequency(hz) take whatever the caller hands them.    *)
(***************************************************************************)
Millisecond == NanosPerSec \div 1000

\* No duty cycle (with_frequency left out), the one of the program, and
\* longer ones up to and past the threshold.
DutyCycles ==
    { duty_cycle_Unset, duty_cycle, 10 * Millisecond, threshold, 30 * Millisecond,
      60 * Millisecond }

MaxAnyElapsedMs == 70

AnyTickSteps == { 5 * Millisecond, 20 * Millisecond }

AnyTick ==
    /\ \E d \in AnyTickSteps :
          /\ elapsed + d <= MaxAnyElapsedMs * Millisecond
          /\ elapsed' = elapsed + d
    /\ UNCHANGED <<machine_vars, debt, slept, branch, sleep_duty_cycle,
                   ledger_vars, phase, status>>

InitAnyDuty ==
    /\ InitMachine(LoadedMemory(<< >>))
    /\ \E d \in DutyCycles : InitSleeperWith(d)
    /\ phase = "sleep"
    /\ status = "running"

NextAnyDuty == AnyTick \/ ThrottleCall

SpecAnyDuty == InitAnyDuty /\ [][NextAnyDuty]_vars

\* C29: whenever sleep() has returned, 0 <= debt <= threshold, whatever the
\* elapsed times the calls found and whatever the duty cycle, one longer than
\* the threshold included.
C29_DebtStaysWithinThreshold ==
    /\ debt >= 0
    /\ debt <= threshold
    /\ slept > 0 => debt = 0

\* The duty cycle is 30 ms and the call found 5 ms elapsed: the debt is the
\* threshold itself, and the call did not sleep.
C29_Witness ==
    /\ sleep_duty_cycle > threshold
    /\ branch = "too fast"
    /\ debt = threshold
    /\ slept = 0

(***************************************************************************)
(* The ledger of the throttle: every call adds what it slept and the       *)
(* surplus it found to the two sums.                                       *)
(***************************************************************************)
MaxLedgerMs == 60

\* The surplus of the call to come: `result` of checked_sub in the fast
\* branch, nothing in the slow one.
Surplus ==
    IF elapsed <= sleep_duty_cycle THEN sleep_duty_cycle - elapsed ELSE 0

LedgerCall ==
    /\ surplus_total < MaxLedgerMs * Millisecond
    /\ SetSleeper(SleeperSleep(Sleeper))
    /\ slept_total' = slept_total + slept'
    /\ surplus_total' = surplus_total + Surplus
    /\ UNCHANGED <<machine_vars, phase, status>>

NextLedger == AnyTick \/ LedgerCall

SpecLedger == InitAnyDuty /\ [][NextLedger]_vars

\* C30: the time slept so far plus the debt never exceeds the sum of the
\* surpluses of the fast calls: a call sleeps only what is owed, and a slow
\* call only lowers what is owed.
C30_SleptAndOwedWithinSurplus ==
    /\ [](slept_total + debt <= surplus_total)
    /\ [][ LedgerCall
            => /\ slept' > 0 => slept' = debt + Surplus
               /\ elapsed > sleep_duty_cycle => (debt' <= debt /\ slept' = 0)
         ]_vars

\* Fast calls ran up a debt, one of them slept it, and a slow call then took
\* some of the new debt away: less is slept and owed than the surpluses.
C30_Witness ==
    /\ branch = "running slow"
    /\ slept_total > threshold
    /\ debt > 0
    /\ slept_total + debt < surplus_total

(***************************************************************************)
(* AddI again and again: I is set to 0xFFF and Vx added to it until the    *)
(* sum no longer fits the u16.                                             *)
(***************************************************************************)
\* Three loads, and the AddI's that take I from 0xFFF past 0xFFFF by 255.
MaxAddICycles == 244

OpAddI(x) == 15 * 4096 + x * 256 + 16 + 14

\* The number of AddI's in a program: the last one takes I past U16Max when
\* the register holds 255.
AddIRepeats == (U16Max - LastAddress) \div 255 + 1

\* Va = a and VF = f (one load when a is VF), I = 0xFFF, then AddI(a) over and
\* over.
AddIProgram(x, a, f) ==
    << OpLoadIm(15, f), OpLoadIm(x, a), OpLoadI(LastAddress) >>
    \o [ k \in 1..AddIRepeats |-> OpAddI(x) ]

AddIPrograms ==
    { AddIProgram(1, a, f) : a \in { 1, 128, 255 }, f \in { 0, 7 } }
    \cup { AddIProgram(15, a, 0) : a \in { 1, 255 } }

InitAddI ==
    /\ \E words \in AddIPrograms : InitMachine(LoadedMemory(words))
    /\ InitSleeper
    /\ phase = "event"
    /\ status = "running"

NextAddI ==
    OtherEventUpTo(MaxAddICycles) \/ ExecuteUpTo(MaxAddICycles) \/ UpdateTimers \/ Sleep

SpecAddI == InitAddI /\ [][NextAddI]_vars

\* C31: AddI(x) sets I to I + Vx and writes no flag: VF and every other
\* register stay as they are, also when the sum passes 0xFFF.
C31_AddIAddsVxToI ==
    [][ Executing("AddI")
            => /\ i' = i + v[NextInsn.x]
               /\ v' = v
               /\ status' = "running"
      ]_vars

\* What the code does: while the sum fits the u16 it is I, past 0xFFF too,
\* and no register changes.
AddIWithinU16 ==
    [][ (Executing("AddI") /\ i + v[NextInsn.x] <= U16Max)
            => /\ i' = i + v[NextInsn.x]
               /\ v' = v
               /\ pc' = pc + 2
               /\ status' = "running"
      ]_vars

\* And when the sum does not fit: the step panics (a build that traps
\* overflow) or I wraps around (a build that does not).
AddIPastU16 ==
    [][ (Executing("AddI") /\ i + v[NextInsn.x] > U16Max)
            => \/ status' = "panicked"
               \/ /\ i' = i + v[NextInsn.x] - (U16Max + 1)
                  /\ v' = v
                  /\ status' = "running"
      ]_vars

\* Both outcomes of the sum that does not fit happen.
AddITrapped == status = "panicked" /\ i + v[1] > U16Max

AddIWrapped == status = "running" /\ phase = "timers" /\ i < 255 /\ cycle_count = MaxAddICycles

====
